---- MODULE Spec2Model ----
(***************************************************************************)
(* Model of the post-planning synthesis engine of the mall assistant:      *)
(*   src/action.py      ActionExecutor (tool invocation, aggregation,      *)
(*                      time allocation, response synthesis)               *)
(*   src/mall_tools.py  the backend tools (route planning, route           *)
(*                      verification, lost and found)                      *)
(*                                                                         *)
(* The module holds several specifications over one set of variables; a    *)
(* specification leaves the variables of the other parts untouched.        *)
(*   SpecAgg    _aggregate_tool_results applied to a list of ToolResults   *)
(*   SpecPar    execute_parallel: concurrent _execute_tool tasks + gather  *)
(*   SpecAlloc  _calculate_time_allocations applied to stops and a budget  *)
(*   SpecRoute  calculate_route / calculate_accessible_route               *)
(*   SpecBackend  verify_route called repeatedly between lost-and-found    *)
(*                calls on one server process                              *)
(*   SpecSynth  _synthesize_response applied to a plan and ToolResults     *)
(*   SpecExec   execute: the sequential tool loop, then the synthesis      *)
(***************************************************************************)
EXTENDS Integers, Sequences, FiniteSets, TLC

VARIABLES
    \* ---- _aggregate_tool_results ----
    results,        \* the List[ToolResult] argument
    aggregated,     \* what the call produced: [exc, data]
    agg_pc,         \* "call" before the call, "done" after it
    \* ---- execute_parallel ----
    tool_calls,     \* the tool_calls argument
    par_pc,         \* "call", "gather" (suspended in asyncio.gather), "returned"
    task_pc,        \* per call: "none", "created", "awaiting", "done"
    backend,        \* per call: what session.call_tool did
    task_outcome,   \* per call: what the _execute_tool task ended with
    completed,      \* indexes of the tasks in the order they completed
    final_results,  \* the list execute_parallel returns
    \* ---- _calculate_time_allocations ----
    shops,              \* the shops argument: a list of [id, category]
    total_time_minutes, \* Optional[int]: <<>> is None, <<n>> the integer n
    now,                \* datetime.now() in minutes since midnight
    allocations,        \* the dict returned, its entries in insertion order
    alloc_pc,           \* "call" before the call, "done" after it
    \* ---- the route tools of the backend ----
    shop_ids,       \* the shop_ids argument of the last call
    route_tool,     \* the tool called: "calculate_route", "calculate_accessible_route"
    route_reply,    \* the JSON value the tool returned
    \* ---- verify_route and the lost-and-found tools of the backend ----
    constraints,    \* the constraints argument of the last verify_route call
    registry,       \* LOST_AND_FOUND, the in-memory list of the server process
    first_report,   \* history: <<>> or <<[ids, cons, report, seen]>>, the first
                    \* verify_route call and the registry it ran on
    \* ---- execute and _synthesize_response ----
    plan,            \* the DecisionPlan argument
    exec_pc,         \* where execute (or the _synthesize_response call) stands
    issued,          \* the calls session.call_tool has received, in order
    tool_results,    \* execute's list of ToolResults
    reasoning_trace, \* execute's reasoning trace
    final_response,  \* what _synthesize_response returned
    action_result,   \* the ActionResult execute returned
    \* ---- RateLimiter.acquire ----
    request_times,       \* self.request_times, in whole seconds
    clock,               \* time.time(), in whole seconds
    acquire_pc,          \* "idle", or "sleeping" in asyncio.sleep
    time_read,           \* acquire's local current_time: its last time.time()
    oldest_request,      \* acquire's local: <<>> or <<t>>, set when it has to wait
    daily_request_count  \* completed acquires

aggVars == <<results, aggregated, agg_pc>>
parVars == <<tool_calls, par_pc, task_pc, backend, task_outcome, completed, final_results>>
allocVars == <<shops, total_time_minutes, now, allocations, alloc_pc>>
routeVars == <<shop_ids, route_tool, route_reply>>
backVars == <<constraints, registry, first_report>>
execVars == <<plan, exec_pc, issued, tool_results, reasoning_trace, final_response,
              action_result>>
limVars == <<request_times, clock, acquire_pc, time_read, oldest_request,
             daily_request_count>>

vars == <<aggVars, parVars, allocVars, routeVars, backVars, execVars, limVars>>

\* what the actions of one part leave alone
notAgg == <<parVars, allocVars, routeVars, backVars, execVars, limVars>>
notPar == <<aggVars, allocVars, routeVars, backVars, execVars, limVars>>
notAlloc == <<aggVars, parVars, routeVars, backVars, execVars, limVars>>
notRoute == <<aggVars, parVars, allocVars, backVars, execVars, limVars>>
notBackend == <<aggVars, parVars, allocVars, execVars, limVars>>
notExec == <<aggVars, parVars, allocVars, routeVars, backVars, limVars>>
notLimiter == <<aggVars, parVars, allocVars, routeVars, backVars, execVars>>

(***************************************************************************)
(* Bounds of the model.                                                    *)
(***************************************************************************)
MaxResults == 2     \* longest ToolResult list given to the aggregator
MaxItems == 2       \* longest shop list in one search_shops payload
MaxCalls == 3       \* longest batch given to execute_parallel
MaxStops == 2       \* longest stop list given to the time allocator
MaxBudget == 125    \* largest time budget in minutes
MaxIds == 3         \* longest shop_ids list given to a route tool

(***************************************************************************)
(* JSON values.  A tool's payload is the text of its first TextContent;    *)
(* json.loads either raises JSONDecodeError or yields a value.  A value is *)
(* a record [t, items, key, val]:                                          *)
(*   t = "empty"  no content at all (data None or [])                      *)
(*   t = "bad"    text that is not JSON                                    *)
(*   t = "list"   a JSON array, its elements in items                      *)
(*   t = "obj"    a JSON object {key: val}; key = "" is the object {}      *)
(*   t = "num"    a JSON scalar (number, null)                             *)
(*   t = "none"   Python None (an unset slot of the dataset)               *)
(* val is an abstract member value: "" is a falsy one (false, "", []),     *)
(* "x" and "y" are two distinct truthy ones.                               *)
(* An element of an array is a record [t, hasId, id, attr]:                *)
(*   t = "obj"    an object; hasId says whether it has the key 'id'        *)
(*   t = "num"    a number                                                 *)
(*   t = "str"    a string; hasId says whether it contains the text 'id'   *)
(***************************************************************************)
JVal(t, items, key, val) == [t |-> t, items |-> items, key |-> key, val |-> val]

JEmpty == JVal("empty", <<>>, "", "")
JBad == JVal("bad", <<>>, "", "")
JNone == JVal("none", <<>>, "", "")
JNum == JVal("num", <<>>, "", "x")
JList(items) == JVal("list", items, "", "")
JObj(key, val) == JVal("obj", <<>>, key, val)

Shop(id, attr) == [t |-> "obj", hasId |-> TRUE, id |-> id, attr |-> attr]
ShopNoId == [t |-> "obj", hasId |-> FALSE, id |-> 0, attr |-> "a"]
NumEntry == [t |-> "num", hasId |-> FALSE, id |-> 0, attr |-> ""]
StrEntry == [t |-> "str", hasId |-> FALSE, id |-> 0, attr |-> ""]
StrIdEntry == [t |-> "str", hasId |-> TRUE, id |-> 0, attr |-> ""]

(***************************************************************************)
(* ToolResult (pydantic model): tool_name, success, data, error.           *)
(* execution_time_ms is a measurement no modelled code reads.              *)
(***************************************************************************)
ToolResult(tool_name, success, data, error) ==
    [tool_name |-> tool_name, success |-> success, data |-> data, error |-> error]

ToolNames ==
    { "show_reasoning", "search_shops", "get_shop_details", "calculate_route",
      "verify_route", "get_recommendations", "check_shop_hours",
      "get_accessibility_info", "calculate_accessible_route", "check_wait_time",
      "get_mall_facilities", "get_current_events", "log_lost_item",
      "search_lost_and_found" }

(***************************************************************************)
(* _extract_text_from_content followed by json.loads: no content gives the *)
(* text "", which is not JSON.  TRUE when json.loads raises.               *)
(***************************************************************************)
JSONDecodeError(data) == data.t \in {"empty", "bad"}

isinstance_list(v) == v.t = "list"

SeqRange(s) == { s[i] : i \in 1..Len(s) }

(***************************************************************************)
(* The PlanningDataset accumulator of _aggregate_tool_results.             *)
(* accessibility is the dict shop_name -> record, an absent key is JNone;  *)
(* route_verified is "None" until a verify_route outcome sets it.          *)
(***************************************************************************)
ShopNames == {"x", "y"}

EmptyDataset ==
    [ shops |-> <<>>, shop_details |-> <<>>, route |-> JNone,
      route_verified |-> "None", accessibility |-> [n \in ShopNames |-> JNone],
      recommendations |-> <<>>, shop_hours |-> <<>>, facilities |-> <<>>,
      events |-> <<>>, wait_times |-> <<>>, reasoning |-> "", lost_found |-> <<>> ]

\* dict.get(key, default) on a decoded JSON object
DictGet(v, key, default) == IF v.key = key /\ key # "" THEN v.val ELSE default

Returned(d) == [exc |-> "none", data |-> d]
Raised(e) == [exc |-> e, data |-> EmptyDataset]

\* "if not result.success: continue"
SkipsAlways(result) == FALSE
Skips(result) == ~result.success

(***************************************************************************)
(* The body of the try block for one successful result whose text decoded  *)
(* to v: the dispatch on tool_name.  Only JSONDecodeError is caught, so a  *)
(* value of another shape raises out of the function.                      *)
(***************************************************************************)
Dispatch(agg, tool_name, v) ==
    CASE tool_name = "search_shops" ->
           IF isinstance_list(v)
           THEN Returned([agg EXCEPT !.shops = @ \o v.items]) ELSE Returned(agg)
      [] tool_name = "get_shop_details" ->
           Returned([agg EXCEPT !.shop_details = Append(@, v)])
      [] tool_name \in {"calculate_route", "calculate_accessible_route"} ->
           Returned([agg EXCEPT !.route = v])
      [] tool_name = "verify_route" ->
           IF v.t = "obj"
           THEN Returned([agg EXCEPT !.route_verified = DictGet(v, "verified", "")])
           ELSE Raised("AttributeError")
      [] tool_name = "get_accessibility_info" ->
           IF v.t = "obj"
           THEN LET shop_name == DictGet(v, "shop_name", "")
                IN  IF shop_name # ""
                    THEN Returned([agg EXCEPT !.accessibility[shop_name] = v])
                    ELSE Returned(agg)
           ELSE Raised("AttributeError")
      [] tool_name = "get_recommendations" ->
           IF isinstance_list(v)
           THEN Returned([agg EXCEPT !.recommendations = @ \o v.items])
           ELSE Returned(agg)
      [] tool_name = "check_shop_hours" ->
           Returned([agg EXCEPT !.shop_hours = Append(@, v)])
      [] tool_name = "get_mall_facilities" ->
           IF isinstance_list(v)
           THEN Returned([agg EXCEPT !.facilities = @ \o v.items]) ELSE Returned(agg)
      [] tool_name = "get_current_events" ->
           IF isinstance_list(v)
           THEN Returned([agg EXCEPT !.events = @ \o v.items]) ELSE Returned(agg)
      [] tool_name = "check_wait_time" ->
           Returned([agg EXCEPT !.wait_times = Append(@, v)])
      [] tool_name = "show_reasoning" ->
           \* 'steps' in reasoning: a key test on an object, a membership test
           \* on an array, a TypeError on a scalar
           IF v.t = "num" THEN Raised("TypeError")
           ELSE IF v.t = "obj" /\ v.key = "steps"
                THEN Returned([agg EXCEPT !.reasoning = v.val])
                ELSE Returned(agg)
      [] tool_name = "search_lost_and_found" ->
           IF isinstance_list(v)
           THEN Returned([agg EXCEPT !.lost_found = @ \o v.items]) ELSE Returned(agg)
      [] OTHER -> Returned(agg)

\* One iteration of "for result in results"
AggregateOne(agg, result) ==
    IF Skips(result) THEN Returned(agg)
    ELSE IF result.tool_name \in ToolNames \ {"log_lost_item"}
            /\ JSONDecodeError(result.data)
         THEN Returned(agg)
         ELSE Dispatch(agg, result.tool_name, result.data)

RECURSIVE AggregateLoop(_, _, _)
AggregateLoop(agg, rs, i) ==
    IF i > Len(rs) THEN Returned(agg)
    ELSE LET step == AggregateOne(agg, rs[i])
         IN  IF step.exc # "none" THEN step
             ELSE AggregateLoop(step.data, rs, i + 1)

(***************************************************************************)
(* {shop['id']: shop for shop in shops if 'id' in shop}: a dict keeps a    *)
(* key at the place of its first insertion and a later insertion of the    *)
(* same key replaces the value.  The dict is a sequence of its values.     *)
(***************************************************************************)
DictSetDefault(d, shop) ==
    IF \E j \in 1..Len(d) : d[j].id = shop.id THEN d ELSE Append(d, shop)
DictSet(d, shop) ==
    IF \E j \in 1..Len(d) : d[j].id = shop.id
    THEN [j \in 1..Len(d) |-> IF d[j].id = shop.id THEN shop ELSE d[j]]
    ELSE Append(d, shop)

\* 'id' in shop, then shop['id']: TRUE when the comprehension raises TypeError
IdTestRaises(shop) == shop.t = "num" \/ (shop.t = "str" /\ shop.hasId)

RECURSIVE UniqueShops(_, _, _)
UniqueShops(d, shop_list, i) ==
    IF i > Len(shop_list) THEN d
    ELSE IF shop_list[i].hasId
         THEN UniqueShops(DictSet(d, shop_list[i]), shop_list, i + 1)
         ELSE UniqueShops(d, shop_list, i + 1)

\* "Deduplicate shops by ID"
Deduplicate(agg) ==
    IF agg.shops = <<>> THEN Returned(agg)
    ELSE IF \E i \in 1..Len(agg.shops) : IdTestRaises(agg.shops[i])
         THEN Raised("TypeError")
         ELSE Returned([agg EXCEPT !.shops = UniqueShops(<<>>, agg.shops, 1)])

_aggregate_tool_results(rs) ==
    LET loop == AggregateLoop(EmptyDataset, rs, 1)
    IN  IF loop.exc # "none" THEN loop ELSE Deduplicate(loop.data)

(***************************************************************************)
(* SpecAgg: _aggregate_tool_results is called once on a list of            *)
(* ToolResults.  The lists are drawn from AggOutcomes: for every tool the  *)
(* payload its backend produces, payloads of another shape, text that is   *)
(* not JSON, and failed outcomes that still carry data.                    *)
(***************************************************************************)
SeqsUpTo(S, n) == UNION { [1..k -> S] : k \in 0..n }

ShopEntries == { Shop(1, "a"), Shop(1, "b"), Shop(2, "a") }

SearchPayloads ==
    { JList(l) : l \in SeqsUpTo(ShopEntries, MaxItems) }
    \cup { JList(<<ShopNoId>>), JList(<<Shop(2, "b"), ShopNoId>>),
           JList(<<NumEntry>>), JList(<<StrEntry>>), JList(<<StrIdEntry>>),
           JList(<<Shop(1, "a"), NumEntry>>),
           JBad, JEmpty, JNum, JObj("error", "x") }

OtherPayloads(tool_name) ==
    CASE tool_name = "get_shop_details" -> { JObj("name", "x"), JObj("error", "x"), JBad }
      [] tool_name = "calculate_route" -> { JObj("total_shops", "x"), JObj("error", "x"), JBad }
      [] tool_name = "calculate_accessible_route" -> { JObj("total_shops", "y") }
      [] tool_name = "verify_route" ->
           { JObj("verified", "x"), JObj("verified", ""), JObj("error", "x"),
             JList(<<>>), JBad }
      [] tool_name = "get_accessibility_info" ->
           { JObj("shop_name", "x"), JObj("shop_name", "y"), JObj("error", "x"), JNum }
      [] tool_name = "get_recommendations" ->
           { JList(<<Shop(2, "b")>>), JObj("suggested_shops", "x") }
      [] tool_name = "check_shop_hours" -> { JObj("shop_name", "x") }
      [] tool_name = "get_mall_facilities" -> { JList(<<ShopNoId>>), JObj("restrooms", "x") }
      [] tool_name = "get_current_events" ->
           { JList(<<ShopNoId>>), JObj("ongoing_events", "x") }
      [] tool_name = "check_wait_time" -> { JObj("location", "x") }
      [] tool_name = "show_reasoning" -> { JObj("steps", "x"), JBad, JNum }
      [] tool_name = "search_lost_and_found" ->
           { JList(<<Shop(1, "a")>>), JObj("message", "x"), JObj("matching_items", "x") }
      [] tool_name = "log_lost_item" -> { JObj("status", "x") }
      [] OTHER -> {}

FailedWithData ==
    { ToolResult("search_shops", FALSE, JList(<<Shop(1, "b")>>), "boom"),
      ToolResult("search_shops", FALSE, JList(<<NumEntry>>), "boom"),
      ToolResult("calculate_route", FALSE, JObj("total_shops", "y"), "boom"),
      ToolResult("verify_route", FALSE, JList(<<>>), "boom"),
      ToolResult("get_recommendations", FALSE, JList(<<Shop(1, "a")>>), "boom"),
      ToolResult("check_wait_time", FALSE, JEmpty, "boom") }

AggOutcomes ==
    { ToolResult("search_shops", TRUE, d, "") : d \in SearchPayloads }
    \cup UNION { { ToolResult(t, TRUE, d, "") : d \in OtherPayloads(t) } :
                 t \in ToolNames \ {"search_shops"} }
    \cup FailedWithData

IdleAgg ==
    /\ results = <<>>
    /\ aggregated = Returned(EmptyDataset)
    /\ agg_pc = "idle"

IdlePar ==
    /\ tool_calls = <<>>
    /\ par_pc = "idle"
    /\ task_pc = <<>>
    /\ backend = <<>>
    /\ task_outcome = <<>>
    /\ completed = <<>>
    /\ final_results = <<>>

IdleAlloc ==
    /\ shops = <<>>
    /\ total_time_minutes = <<>>
    /\ now = 0
    /\ allocations = <<>>
    /\ alloc_pc = "idle"

IdleRoute ==
    /\ shop_ids = <<>>
    /\ route_tool = "none"
    /\ route_reply = [keys |-> {}]

\* a constraints dict: keys holds the keys present, a field whose key is
\* absent is not read
Constraints(keys, max_floors, max_time_minutes, required_categories, lower_floors_only) ==
    [ keys |-> keys, max_floors |-> max_floors, max_time_minutes |-> max_time_minutes,
      required_categories |-> required_categories,
      lower_floors_only |-> lower_floors_only ]

NoConstraints == Constraints({}, 0, 0, <<>>, FALSE)

IdleBackend ==
    /\ constraints = NoConstraints
    /\ registry = <<>>
    /\ first_report = <<>>

\* DecisionPlan: reasoning_steps, tool_calls, final_answer.  final_answer is
\* Optional[str]: <<>> is None, <<s>> the string s
DecisionPlan(reasoning_steps, calls, final_answer) ==
    [reasoning_steps |-> reasoning_steps, tool_calls |-> calls,
     final_answer |-> final_answer]

\* what _synthesize_response hands back: the text it returned (kind tells
\* which text, stops lists the STOP entries of an itinerary), or the
\* exception that left it
Response(renderer, kind, text, stops, exc) ==
    [renderer |-> renderer, kind |-> kind, text |-> text, stops |-> stops, exc |-> exc]

NoResponse == Response("", "none", "", <<>>, "none")

\* ActionResult (pydantic model)
ActionResult(rs, response, trace, success) ==
    [tool_results |-> rs, final_response |-> response, reasoning_trace |-> trace,
     success |-> success]

NoActionResult == ActionResult(<<>>, NoResponse, <<>>, FALSE)

IdleExec ==
    /\ plan = DecisionPlan(<<>>, <<>>, <<>>)
    /\ exec_pc = "idle"
    /\ issued = <<>>
    /\ tool_results = <<>>
    /\ reasoning_trace = <<>>
    /\ final_response = NoResponse
    /\ action_result = NoActionResult

\* RateLimiter.__init__; the clock is counted from the construction
IdleLimiter ==
    /\ request_times = <<>>
    /\ clock = 0
    /\ acquire_pc = "idle"
    /\ time_read = 0
    /\ oldest_request = <<>>
    /\ daily_request_count = 0

InitAgg ==
    /\ results \in SeqsUpTo(AggOutcomes, MaxResults)
    /\ aggregated = Returned(EmptyDataset)
    /\ agg_pc = "call"
    /\ IdlePar /\ IdleAlloc /\ IdleRoute /\ IdleBackend /\ IdleExec /\ IdleLimiter

AggregateCall ==
    /\ agg_pc = "call"
    /\ aggregated' = _aggregate_tool_results(results)
    /\ agg_pc' = "done"
    /\ UNCHANGED <<results, notAgg>>

NextAgg == AggregateCall

SpecAgg == InitAgg /\ [][NextAgg]_vars

(***************************************************************************)
(* Properties of _aggregate_tool_results (SpecAgg).                        *)
(***************************************************************************)
Successful(rs) == SelectSeq(rs, LAMBDA r : r.success)

RECURSIVE AllItems(_, _)
AllItems(rs, i) ==
    IF i > Len(rs) THEN <<>> ELSE rs[i].data.items \o AllItems(rs, i + 1)

\* a successful search_shops outcome whose payload is a JSON list of objects
ShopBearing(r) ==
    /\ r.success /\ r.tool_name = "search_shops" /\ r.data.t = "list"
    /\ \A k \in 1..Len(r.data.items) : r.data.items[k].t = "obj"

FirstIndex(all, id) ==
    CHOOSE k \in 1..Len(all) :
        /\ all[k].hasId /\ all[k].id = id
        /\ \A m \in 1..(k - 1) : ~(all[m].hasId /\ all[m].id = id)
LastIndex(all, id) ==
    CHOOSE k \in 1..Len(all) :
        /\ all[k].hasId /\ all[k].id = id
        /\ \A m \in (k + 1)..Len(all) : ~(all[m].hasId /\ all[m].id = id)

OneEntryPerId(out, all) ==
    /\ \A i \in 1..Len(out) : out[i].hasId
    /\ \A i, j \in 1..Len(out) : out[i].id = out[j].id => i = j
    /\ { out[i].id : i \in 1..Len(out) }
         = { all[k].id : k \in { m \in 1..Len(all) : all[m].hasId } }

\* C1 as stated: for every list of successful search_shops outcomes the
\* returned shops list has exactly one entry per shop id and the entry kept is
\* the first occurrence of that id.
CexC1_FirstSeenWins ==
    (agg_pc = "done" /\ \A i \in 1..Len(results) : ShopBearing(results[i]))
    => /\ aggregated.exc = "none"
       /\ LET out == aggregated.data.shops
              all == AllItems(results, 1)
          IN  /\ OneEntryPerId(out, all)
              /\ \A i \in 1..Len(out) : out[i] = all[FirstIndex(all, out[i].id)]

\* C1 amended: for every list of successful search_shops outcomes that carry
\* shop lists, the returned shops list has exactly one entry per shop id and
\* the entry kept carries the attributes of the LAST occurrence of that id
\* (last seen wins).
ThmC1_LastSeenWins ==
    (agg_pc = "done" /\ \A i \in 1..Len(results) : ShopBearing(results[i]))
    => /\ aggregated.exc = "none"
       /\ LET out == aggregated.data.shops
              all == AllItems(results, 1)
          IN  /\ OneEntryPerId(out, all)
              /\ \A i \in 1..Len(out) : out[i] = all[LastIndex(all, out[i].id)]

\* an id read twice with different attributes, in two different outcomes
WitC1_DuplicateIdMerged ==
    /\ agg_pc = "done" /\ Len(results) = 2
    /\ \A i \in 1..Len(results) : ShopBearing(results[i])
    /\ \E a \in 1..Len(results[1].data.items), b \in 1..Len(results[2].data.items) :
          /\ results[1].data.items[a].hasId /\ results[2].data.items[b].hasId
          /\ results[1].data.items[a].id = results[2].data.items[b].id
          /\ results[1].data.items[a].attr # results[2].data.items[b].attr
    /\ Len(aggregated.data.shops) = 1

\* C5: the dataset returned for an outcome list equals the dataset returned
\* for the same list with all failed outcomes removed.
ThmC5_FailedOutcomesSkipped ==
    agg_pc = "done" => aggregated = _aggregate_tool_results(Successful(results))

\* a failed outcome that carries a decodable shop list, next to a successful
\* outcome that put something into the dataset
WitC5_FailedNextToSuccessful ==
    /\ agg_pc = "done"
    /\ \E i \in 1..Len(results) : ~results[i].success /\ results[i].data.t = "list"
                                   /\ results[i].data.items # <<>>
    /\ \E j \in 1..Len(results) : results[j].success
    /\ aggregated.exc = "none" /\ aggregated.data # EmptyDataset

\* the shape each operation's branch expects of its decoded payload
ListTools ==
    { "search_shops", "get_recommendations", "get_mall_facilities",
      "get_current_events", "search_lost_and_found" }
ObjectTools ==
    { "get_shop_details", "calculate_route", "calculate_accessible_route",
      "verify_route", "get_accessibility_info", "check_shop_hours",
      "check_wait_time", "show_reasoning" }
Malformed(r) ==
    \/ /\ r.tool_name \in ListTools
       /\ ~(r.data.t = "list" /\ \A k \in 1..Len(r.data.items) : r.data.items[k].t = "obj")
    \/ /\ r.tool_name \in ObjectTools
       /\ r.data.t # "obj"

\* C6 as stated: for every list of successful outcomes the call returns a
\* dataset, and it is the dataset of the list without its malformed outcomes.
CexC6_MalformedContributesNothing ==
    (agg_pc = "done" /\ \A i \in 1..Len(results) : results[i].success)
    => /\ aggregated.exc = "none"
       /\ aggregated = _aggregate_tool_results(SelectSeq(results, LAMBDA r : ~Malformed(r)))

(***************************************************************************)
(* SpecPar: execute_parallel.  asyncio.gather wraps one _execute_tool      *)
(* coroutine per call into a task; a task runs up to its await of          *)
(* session.call_tool and resumes when the backend has answered, in any     *)
(* order.  gather(..., return_exceptions=True) resumes its caller when     *)
(* every task is done and hands back the tasks' outcomes by position.      *)
(***************************************************************************)
ParCalls ==
    { [tool_name |-> "search_shops", arguments |-> "category=Food"],
      [tool_name |-> "verify_route", arguments |-> "shop_ids=[1,2]"] }

BackendContents == { JList(<<Shop(1, "a")>>), JObj("verified", "x") }
BackendErrors == { "backend error" }

NoBackend == [kind |-> "pending", content |-> JEmpty, message |-> ""]
BackendReturned(content) == [kind |-> "returns", content |-> content, message |-> ""]
BackendRaised(message) == [kind |-> "raises", content |-> JEmpty, message |-> message]

\* an outcome of a task: a value (the ToolResult returned) or an exception
NoToolResult == ToolResult("", FALSE, JEmpty, "")
NoOutcome == [kind |-> "pending", value |-> NoToolResult, message |-> ""]
Value(tool_result) == [kind |-> "value", value |-> tool_result, message |-> ""]
ExceptionOutcome(message) == [kind |-> "exception", value |-> NoToolResult, message |-> message]

(***************************************************************************)
(* _execute_tool once session.call_tool has returned or raised: the try    *)
(* returns a successful ToolResult with result.content, the except clause  *)
(* a failed one with str(e); data is then the default None.                *)
(***************************************************************************)
ExecuteToolReraises(tool_name, b) ==
    IF b.kind = "returns"
    THEN Value(ToolResult(tool_name, TRUE, b.content, ""))
    ELSE ExceptionOutcome(b.message)
_execute_tool(tool_name, b) ==
    IF b.kind = "returns"
    THEN Value(ToolResult(tool_name, TRUE, b.content, ""))
    ELSE Value(ToolResult(tool_name, FALSE, JEmpty, b.message))

\* gather resumes its caller when every task is done
GatherReadyAnyDone == \E i \in 1..Len(task_pc) : task_pc[i] = "done"
GatherReady == \A i \in 1..Len(task_pc) : task_pc[i] = "done"

\* the list gather returns: outcome i is the outcome of the i-th awaitable
GatherInCompletionOrder(outcomes, order) ==
    [i \in 1..Len(outcomes) |->
        IF i <= Len(order) THEN outcomes[order[i]] ELSE outcomes[i]]
GatherResults(outcomes, order) == [i \in 1..Len(outcomes) |-> outcomes[i]]

\* "Convert exceptions to failed ToolResults"
ConvertResults(calls, gathered) ==
    [i \in 1..Len(gathered) |->
        IF gathered[i].kind = "exception"
        THEN ToolResult(calls[i].tool_name, FALSE, JEmpty, gathered[i].message)
        ELSE gathered[i].value]

InitPar ==
    /\ tool_calls \in SeqsUpTo(ParCalls, MaxCalls)
    /\ par_pc = "call"
    /\ task_pc = [i \in 1..Len(tool_calls) |-> "none"]
    /\ backend = [i \in 1..Len(tool_calls) |-> NoBackend]
    /\ task_outcome = [i \in 1..Len(tool_calls) |-> NoOutcome]
    /\ completed = <<>>
    /\ final_results = <<>>
    /\ IdleAgg /\ IdleAlloc /\ IdleRoute /\ IdleBackend /\ IdleExec /\ IdleLimiter

\* the list comprehension creates the coroutines and gather schedules them
ExecuteParallelCall ==
    /\ par_pc = "call"
    /\ par_pc' = "gather"
    /\ task_pc' = [i \in 1..Len(tool_calls) |-> "created"]
    /\ UNCHANGED <<tool_calls, backend, task_outcome, completed, final_results, notPar>>

\* a task runs _execute_tool up to "await self.session.call_tool(...)"
TaskStart(i) ==
    /\ par_pc = "gather" /\ task_pc[i] = "created"
    /\ task_pc' = [task_pc EXCEPT ![i] = "awaiting"]
    /\ UNCHANGED <<tool_calls, par_pc, backend, task_outcome, completed, final_results, notPar>>

TaskFinish(i, b) ==
    /\ par_pc = "gather" /\ task_pc[i] = "awaiting"
    /\ backend' = [backend EXCEPT ![i] = b]
    /\ task_outcome' = [task_outcome EXCEPT ![i] = _execute_tool(tool_calls[i].tool_name, b)]
    /\ task_pc' = [task_pc EXCEPT ![i] = "done"]
    /\ completed' = Append(completed, i)
    /\ UNCHANGED <<tool_calls, par_pc, final_results, notPar>>

\* the backend call returns and the task resumes in the try block
BackendReturns(i) == \E c \in BackendContents : TaskFinish(i, BackendReturned(c))

\* the backend call raises and the task resumes in the except clause
BackendRaises(i) == \E m \in BackendErrors : TaskFinish(i, BackendRaised(m))

\* gather hands its list back; the conversion loop builds final_results
GatherReturn ==
    /\ par_pc = "gather" /\ GatherReady
    /\ final_results' = ConvertResults(tool_calls, GatherResults(task_outcome, completed))
    /\ par_pc' = "returned"
    /\ UNCHANGED <<tool_calls, task_pc, backend, task_outcome, completed, notPar>>

NextPar ==
    \/ ExecuteParallelCall
    \/ \E i \in 1..Len(tool_calls) : TaskStart(i)
    \/ \E i \in 1..Len(tool_calls) : BackendReturns(i)
    \/ \E i \in 1..Len(tool_calls) : BackendRaises(i)
    \/ GatherReturn

SpecPar == InitPar /\ [][NextPar]_vars

(***************************************************************************)
(* Properties of execute_parallel and _execute_tool (SpecPar).             *)
(***************************************************************************)
\* the ToolResult the i-th call is to end with, from what its backend did
ExpectedResult(i) ==
    IF backend[i].kind = "returns"
    THEN ToolResult(tool_calls[i].tool_name, TRUE, backend[i].content, "")
    ELSE ToolResult(tool_calls[i].tool_name, FALSE, JEmpty, backend[i].message)

\* C2: whatever the completion order, execute_parallel returns a list of the
\* length of tool_calls in which result[i] is the outcome of tool_calls[i].
ThmC2_ResultsInCallOrder ==
    par_pc = "returned"
    => /\ Len(final_results) = Len(tool_calls)
       /\ \A i \in 1..Len(tool_calls) : final_results[i] = ExpectedResult(i)

\* the tasks completed in the reverse of the call order, with different outcomes
WitC2_CompletedOutOfOrder ==
    /\ par_pc = "returned" /\ Len(tool_calls) >= 2
    /\ completed[1] = Len(tool_calls) /\ completed[Len(completed)] = 1
    /\ final_results[1] # final_results[Len(tool_calls)]

\* C3: _execute_tool never raises: a finished invocation has returned exactly
\* one ToolResult, success=true with the backend content when the backend call
\* returned, success=false with the error message when it raised.
ThmC3_ExecuteToolNeverRaises ==
    \A i \in 1..Len(task_pc) :
        task_pc[i] = "done"
        => /\ task_outcome[i].kind = "value"
           /\ task_outcome[i].value.tool_name = tool_calls[i].tool_name
           /\ backend[i].kind = "returns"
                => /\ task_outcome[i].value.success
                   /\ task_outcome[i].value.data = backend[i].content
           /\ backend[i].kind = "raises"
                => /\ ~task_outcome[i].value.success
                   /\ task_outcome[i].value.error = backend[i].message

\* one invocation whose backend call raised and one whose backend call returned
WitC3_RaisedAndReturned ==
    \E i, j \in 1..Len(task_pc) :
        /\ task_pc[i] = "done" /\ backend[i].kind = "raises"
        /\ task_pc[j] = "done" /\ backend[j].kind = "returns"

\* C4: execute_parallel returns only after every invocation of the batch has
\* completed or failed; a failed invocation yields a failed ToolResult in its
\* slot and every other invocation still reports its own outcome.
ThmC4_JoinBarrierFaultIsolation ==
    par_pc = "returned"
    => \A i \in 1..Len(tool_calls) :
          /\ task_pc[i] = "done"
          /\ backend[i].kind \in {"returns", "raises"}
          /\ final_results[i].tool_name = tool_calls[i].tool_name
          /\ final_results[i].success = (backend[i].kind = "returns")

\* the first invocation to complete failed, the others went on and succeeded
WitC4_FailureDidNotStopSiblings ==
    /\ par_pc = "returned" /\ Len(tool_calls) >= 2
    /\ backend[completed[1]].kind = "raises"
    /\ \A k \in 2..Len(completed) : final_results[completed[k]].success

(***************************************************************************)
(* _calculate_time_allocations.                                            *)
(***************************************************************************)
\* category_times.get(category, 25)
category_times(category) ==
    CASE category = "Food" -> 60
      [] category = "Jewelry" -> 35
      [] category = "Fashion" -> 30
      [] category = "Toys" -> 25
      [] category = "Electronics" -> 20
      [] category = "Books" -> 20
      [] category = "Home & Garden" -> 25
      [] category = "Sports & Outdoors" -> 20
      [] category = "Health & Beauty" -> 25
      [] OTHER -> 25

RECURSIVE total_needed(_, _)
total_needed(stops, i) ==
    IF i > Len(stops) THEN 0
    ELSE category_times(stops[i].category) + total_needed(stops, i + 1)

(***************************************************************************)
(* int(base_duration * scale_factor) with scale_factor = B / T computed in *)
(* IEEE-754 double precision (Python floats), for integers base, B, T > 0. *)
(*                                                                         *)
(* q = fl(B / T) is B / T rounded to 53 significant bits: with             *)
(* eq = floor(log2(B / T)) and s = 52 - eq, q = m / 2^s where m is         *)
(* B * 2^s / T rounded to the nearest integer, ties to even.  So           *)
(* q = B / T - rp / (T * 2^s), rp the signed remainder of B * 2^s by T.    *)
(* The product base * q is rounded once more.  When T does not divide      *)
(* base * B the exact quotient is at least 1 / T away from an integer and  *)
(* the rounding errors (below 2^-40) do not change the integer part.  When *)
(* T divides base * B, with k = base * B / T: the product is               *)
(* k - base * rp / (T * 2^s); it is k or above when rp <= 0; when rp > 0   *)
(* it rounds to k iff it is no further from k than half the spacing        *)
(* 2^(ek - 52) of the doubles just below k (ties go to k, whose            *)
(* significand is even), and otherwise to a double below k, which int()    *)
(* truncates to k - 1.  Only remainders modulo T and 2 T are needed.       *)
(***************************************************************************)
RECURSIVE Pow2(_)
Pow2(n) == IF n = 0 THEN 1 ELSE 2 * Pow2(n - 1)

RECURSIVE PowMod2(_, _)
PowMod2(n, m) == IF n = 0 THEN 1 % m ELSE (2 * PowMod2(n - 1, m)) % m

\* floor(log2(B / T)): the largest e with 2^e <= B / T
RECURSIVE Log2Up(_, _, _)
Log2Up(B, T, e) == IF T * Pow2(e + 1) <= B THEN Log2Up(B, T, e + 1) ELSE e
RECURSIVE Log2Down(_, _, _)
Log2Down(B, T, e) == IF B * Pow2(e) < T THEN Log2Down(B, T, e + 1) ELSE 0 - e
FloorLog2Ratio(B, T) == IF B >= T THEN Log2Up(B, T, 0) ELSE Log2Down(B, T, 1)

\* the exponent of the doubles just below the integer k >= 1
RECURSIVE Log2Below(_, _)
Log2Below(k, e) == IF Pow2(e + 1) < k THEN Log2Below(k, e + 1) ELSE e
ExponentBelow(k) == IF k = 1 THEN 0 - 1 ELSE Log2Below(k, 0)

\* the signed remainder rp of B * 2^s by T under round-half-to-even
SignedRemainder(B, T, s) ==
    LET r == ((B % T) * PowMod2(s, T)) % T
        r2 == ((B % (2 * T)) * PowMod2(s, 2 * T)) % (2 * T)
        odd == r2 >= T
        up == (2 * r > T) \/ (2 * r = T /\ odd)
    IN  IF up THEN r - T ELSE r

ScaledFloat(base, B, T) ==
    IF (base * B) % T # 0 THEN (base * B) \div T
    ELSE LET k == (base * B) \div T
             eq == FloorLog2Ratio(B, T)
             rp == SignedRemainder(B, T, 52 - eq)
             d == ExponentBelow(k) - eq - 1
         IN  IF rp <= 0 THEN k
             ELSE IF d >= 0
                  THEN (IF base * rp <= T * Pow2(d) THEN k ELSE k - 1)
                  ELSE (IF base * rp * Pow2(0 - d) <= T THEN k ELSE k - 1)

\* "if total_time_minutes:" then the scaled duration, else base * 1.0
Scaled(base, budget, needed) ==
    IF budget # <<>> /\ budget[1] # 0 /\ needed > 0
    THEN ScaledFloat(base, budget[1], needed)
    ELSE base

\* max(duration, 15)
Unclamped(duration) == duration
Clamp(duration) == IF duration > 15 THEN duration ELSE 15

\* strftime('%I:%M %p') of a time given in minutes since midnight
strftime(t) ==
    LET h24 == (t \div 60) % 24
    IN  [ hour |-> IF h24 % 12 = 0 THEN 12 ELSE h24 % 12,
          minute |-> t % 60,
          ampm |-> IF h24 < 12 THEN "AM" ELSE "PM" ]

\* allocations[shop_id] = {...}: a new key is appended, a known key replaced
AllocSet(d, entry) ==
    IF \E j \in 1..Len(d) : d[j].shop_id = entry.shop_id
    THEN [j \in 1..Len(d) |-> IF d[j].shop_id = entry.shop_id THEN entry ELSE d[j]]
    ELSE Append(d, entry)

\* "Move to next time slot (duration + 5 min walking time)"
NextSlotNoWalk(current_time, duration) == current_time + duration
NextSlot(current_time, duration) == current_time + duration + 5

\* the loop "for shop in shops", from its i-th iteration on
RECURSIVE AllocLoop(_, _, _, _, _, _)
AllocLoop(allocs, stops, budget, needed, current_time, i) ==
    IF i > Len(stops) THEN allocs
    ELSE IF stops[i].id = 0
         THEN AllocLoop(allocs, stops, budget, needed, current_time, i + 1)
         ELSE LET duration == Clamp(Scaled(category_times(stops[i].category), budget, needed))
                  entry == [ shop_id |-> stops[i].id,
                             duration |-> duration,
                             start |-> strftime(current_time),
                             end |-> strftime(current_time + duration) ]
              IN  AllocLoop(AllocSet(allocs, entry), stops, budget, needed,
                            NextSlot(current_time, duration), i + 1)

_calculate_time_allocations(stops, budget, current_time) ==
    AllocLoop(<<>>, stops, budget, total_needed(stops, 1), current_time, 1)

(***************************************************************************)
(* SpecAlloc: _calculate_time_allocations is called once.  Its caller      *)
(* _create_detailed_itinerary passes stops that all carry an 'id', no two  *)
(* the same; an id of 0 is a falsy id.  The categories cover every base    *)
(* duration of the table and an unlisted category.                         *)
(***************************************************************************)
StopCategories == { "Food", "Jewelry", "Fashion", "Toys", "Electronics", "Arcade" }

\* the stops with the given categories, ids counted up from first_id
StopsOf(cats, first_id) ==
    [i \in 1..Len(cats) |-> [id |-> first_id + i - 1, category |-> cats[i]]]

Budgets == { <<>> } \cup { <<b>> : b \in 0..MaxBudget }

\* 11:50 AM and 11:50 PM: a schedule that runs over noon, one over midnight
NowChoices == { 11 * 60 + 50, 23 * 60 + 50 }

InitAlloc ==
    /\ \E cats \in SeqsUpTo(StopCategories, MaxStops), first_id \in {0, 1} :
          shops = StopsOf(cats, first_id)
    /\ total_time_minutes \in Budgets
    /\ now \in NowChoices
    /\ allocations = <<>>
    /\ alloc_pc = "call"
    /\ IdleAgg /\ IdlePar /\ IdleRoute /\ IdleBackend /\ IdleExec /\ IdleLimiter

AllocateCall ==
    /\ alloc_pc = "call"
    /\ allocations' = _calculate_time_allocations(shops, total_time_minutes, now)
    /\ alloc_pc' = "done"
    /\ UNCHANGED <<shops, total_time_minutes, now, notAlloc>>

NextAlloc == AllocateCall

SpecAlloc == InitAlloc /\ [][NextAlloc]_vars

(***************************************************************************)
(* Properties of _calculate_time_allocations (SpecAlloc).                  *)
(***************************************************************************)
\* the stop an entry of the allocation was computed for
StopOfEntry(entry) == CHOOSE i \in 1..Len(shops) : shops[i].id = entry.shop_id

BudgetGiven == total_time_minutes # <<>> /\ total_time_minutes[1] > 0

\* C7 as stated: every allocated stop gets max(15, floor(base * budget / sum
\* of the bases of all stops)) minutes when a budget is given and exactly
\* base minutes when none is given.
CexC7_DurationFormula ==
    alloc_pc = "done"
    => \A e \in 1..Len(allocations) :
          LET base == category_times(shops[StopOfEntry(allocations[e])].category)
              exact == (base * total_time_minutes[1]) \div total_needed(shops, 1)
          IN  allocations[e].duration =
                 IF BudgetGiven THEN (IF exact > 15 THEN exact ELSE 15) ELSE base

\* C8: every duration in the allocation returned is at least 15 minutes,
\* whether the budget is absent, zero, positive or below 15 per stop.
ThmC8_DurationAtLeast15 ==
    alloc_pc = "done"
    => \A e \in 1..Len(allocations) : allocations[e].duration >= 15

\* a budget too small for the stops: a scaled duration below 15 was raised to 15
WitC8_SmallBudgetClamped ==
    /\ alloc_pc = "done" /\ BudgetGiven /\ Len(allocations) = 2
    /\ total_time_minutes[1] < 15 * Len(shops)
    /\ \A e \in 1..Len(allocations) : allocations[e].duration = 15

\* the clock time a formatted '%I:%M %p' string denotes, in minutes of the day
ClockMinutes(f) ==
    ((f.hour % 12) + (IF f.ampm = "PM" THEN 12 ELSE 0)) * 60 + f.minute

\* C9: the allocation holds the stops in input order, scheduled back to back:
\* the first starts at the current time, each ends at its start plus its
\* duration, each following one starts exactly 5 minutes after the previous
\* one ends (clock times, so modulo 24 hours).
ThmC9_BackToBackSchedule ==
    alloc_pc = "done"
    => /\ [e \in 1..Len(allocations) |-> allocations[e].shop_id]
            = [i \in 1..Len(SelectSeq(shops, LAMBDA st : st.id # 0)) |->
                  SelectSeq(shops, LAMBDA st : st.id # 0)[i].id]
       /\ Len(allocations) > 0 => ClockMinutes(allocations[1].start) = now % (24 * 60)
       /\ \A e \in 1..Len(allocations) :
             ClockMinutes(allocations[e].end)
               = (ClockMinutes(allocations[e].start) + allocations[e].duration) % (24 * 60)
       /\ \A e \in 1..(Len(allocations) - 1) :
             ClockMinutes(allocations[e + 1].start)
               = (ClockMinutes(allocations[e].end) + 5) % (24 * 60)

\* two stops were scheduled and the second one starts after the clock has
\* passed noon or midnight
WitC9_TwoStopsAcrossNoon ==
    /\ alloc_pc = "done" /\ Len(allocations) = 2
    /\ allocations[1].start.ampm # allocations[2].start.ampm
    /\ allocations[2].start.hour = 12

(***************************************************************************)
(* The route tools of the backend (src/mall_tools.py).  MALL_DATA is read  *)
(* from mall_data.json; Catalog is a catalog of five shops on three        *)
(* floors, its ids not in catalog order, floors shared by several shops.   *)
(***************************************************************************)
Catalog ==
    << [id |-> 3, name |-> "Noodle Bar", floor |-> 2, category |-> "Food"],
       [id |-> 1, name |-> "Denim Co", floor |-> 3, category |-> "Fashion"],
       [id |-> 4, name |-> "Cafe Uno", floor |-> 1, category |-> "Food"],
       [id |-> 2, name |-> "Page One", floor |-> 3, category |-> "Books"],
       [id |-> 5, name |-> "Toy Box", floor |-> 1, category |-> "Toys"] >>

\* an id no shop of the catalog has
UnknownId == 9

\* "for shop in MALL_DATA['shops']: if shop['id'] == shop_id: ... break"
FirstWithId(shop_id) ==
    LET hits == { k \in 1..Len(Catalog) : Catalog[k].id = shop_id }
    IN  IF hits = {} THEN <<>>
        ELSE << Catalog[CHOOSE k \in hits : \A m \in hits : k <= m] >>

\* calculate_route: the shops of shop_ids in input order, one per resolved id
RECURSIVE LookupEach(_, _)
LookupEach(ids, i) ==
    IF i > Len(ids) THEN <<>> ELSE FirstWithId(ids[i]) \o LookupEach(ids, i + 1)

\* calculate_accessible_route: [s for s in MALL_DATA['shops'] if s['id'] in shop_ids]
FilterCatalog(ids) == SelectSeq(Catalog, LAMBDA sh : sh.id \in SeqRange(ids))

\* sorted(shops, key=lambda x: x['floor']): a stable sort by floor
RECURSIVE InsertByFloor(_, _)
InsertByFloor(sh, sorted) ==
    IF sorted = <<>> THEN <<sh>>
    ELSE IF sorted[Len(sorted)].floor <= sh.floor THEN Append(sorted, sh)
         ELSE Append(InsertByFloor(sh, SubSeq(sorted, 1, Len(sorted) - 1)),
                     sorted[Len(sorted)])

RECURSIVE SortFrom(_, _, _)
SortFrom(sorted, stops, i) ==
    IF i > Len(stops) THEN sorted
    ELSE SortFrom(InsertByFloor(stops[i], sorted), stops, i + 1)

Unsorted(stops) == stops
sorted_by_floor(stops) == SortFrom(<<>>, stops, 1)

\* set(s['floor'] for s in sorted_shops)
FloorSet(stops) == { stops[i].floor : i \in 1..Len(stops) }

\* sorted(list(set(...))): the floors in ascending order
RECURSIVE SortedFloors(_)
SortedFloors(fs) ==
    IF fs = {} THEN <<>>
    ELSE LET lo == CHOOSE f \in fs : \A g \in fs : f <= g
         IN  <<lo>> \o SortedFloors(fs \ {lo})

\* what a tool that answered with an empty route instead of an error would send
EmptyRoute ==
    [ keys |-> { "total_shops", "floors_visited", "optimized_order",
                 "estimated_time_minutes" },
      total_shops |-> 0, floors_visited |-> <<>>, optimized_order |-> <<>>,
      estimated_time_minutes |-> 0 ]
\* json.dumps({"error": "No valid shops found"})
NoValidShops == [keys |-> {"error"}, error |-> "No valid shops found"]

\* an estimate that charges the floor changes, not the floors
EstimatedPerFloorChange(sorted_shops) ==
    Len(sorted_shops) * 15 + (Cardinality(FloorSet(sorted_shops)) - 1) * 3
\* len(sorted_shops) * 15 + len(set(s["floor"] for s in sorted_shops)) * 3
estimated_time_minutes(sorted_shops) ==
    Len(sorted_shops) * 15 + Cardinality(FloorSet(sorted_shops)) * 3

calculate_route(ids) ==
    LET found == LookupEach(ids, 1)
        sorted_shops == sorted_by_floor(found)
    IN  IF found = <<>> THEN NoValidShops
        ELSE [ keys |-> { "total_shops", "floors_visited", "floor_changes",
                          "optimized_order", "estimated_time_minutes" },
               total_shops |-> Len(sorted_shops),
               floors_visited |-> SortedFloors(FloorSet(sorted_shops)),
               floor_changes |-> Cardinality(FloorSet(sorted_shops)) - 1,
               optimized_order |->
                   [i \in 1..Len(sorted_shops) |->
                       [ sequence |-> i,
                         shop_name |-> sorted_shops[i].name,
                         floor |-> sorted_shops[i].floor,
                         category |-> sorted_shops[i].category ]],
               estimated_time_minutes |-> estimated_time_minutes(sorted_shops) ]

calculate_accessible_route(ids) ==
    LET found == FilterCatalog(ids)
        sorted_shops == sorted_by_floor(found)
    IN  IF found = <<>> THEN NoValidShops
        ELSE [ keys |-> { "total_shops", "floors_visited", "accessibility_features",
                          "optimized_order", "estimated_time_minutes",
                          "accessibility_notes" },
               total_shops |-> Len(sorted_shops),
               floors_visited |-> SortedFloors(FloorSet(sorted_shops)),
               rest_points |-> Cardinality(FloorSet(sorted_shops)),
               optimized_order |->
                   [i \in 1..Len(sorted_shops) |->
                       [ sequence |-> i,
                         shop_name |-> sorted_shops[i].name,
                         floor |-> sorted_shops[i].floor,
                         rest_area_nearby |-> sorted_shops[i].floor ]],
               estimated_time_minutes |->
                   Len(sorted_shops) * 20 + Cardinality(FloorSet(sorted_shops)) * 5 ]

(***************************************************************************)
(* SpecRoute: the route tools are called, one call after another, with     *)
(* shop_ids lists that may repeat an id or name an unknown one.  The       *)
(* server handles one call at a time: a call is taken when the reply to    *)
(* the previous one has been sent.                                         *)
(***************************************************************************)
ShopIdLists ==
    SeqsUpTo({ Catalog[k].id : k \in 1..Len(Catalog) } \cup {UnknownId}, MaxIds)

InitRoute ==
    IdleRoute /\ IdleAgg /\ IdlePar /\ IdleAlloc /\ IdleBackend /\ IdleExec /\ IdleLimiter

CallCalculateRoute ==
    \E ids \in ShopIdLists :
        /\ route_tool = "none"
        /\ shop_ids' = ids
        /\ route_tool' = "calculate_route"
        /\ route_reply' = calculate_route(ids)
        /\ UNCHANGED notRoute

CallCalculateAccessibleRoute ==
    \E ids \in ShopIdLists :
        /\ route_tool = "none"
        /\ shop_ids' = ids
        /\ route_tool' = "calculate_accessible_route"
        /\ route_reply' = calculate_accessible_route(ids)
        /\ UNCHANGED notRoute

\* the TextContent has been sent; the server waits for the next call
ReplySent ==
    /\ route_tool # "none"
    /\ shop_ids' = <<>>
    /\ route_tool' = "none"
    /\ route_reply' = [keys |-> {}]
    /\ UNCHANGED notRoute

NextRoute == CallCalculateRoute \/ CallCalculateAccessibleRoute \/ ReplySent

SpecRoute == InitRoute /\ [][NextRoute]_vars

(***************************************************************************)
(* Properties of the route tools (SpecRoute).                              *)
(***************************************************************************)
IsRoute(reply) == "optimized_order" \in reply.keys

\* C10: for every shop_ids list that resolves to at least one stop, the
\* optimized_order returned by calculate_route and by
\* calculate_accessible_route is non-decreasing in floor number.
ThmC10_RouteSortedByFloor ==
    (route_tool \in {"calculate_route", "calculate_accessible_route"}
       /\ \E i \in 1..Len(shop_ids), k \in 1..Len(Catalog) : Catalog[k].id = shop_ids[i])
    => /\ IsRoute(route_reply)
       /\ \A i \in 1..(Len(route_reply.optimized_order) - 1) :
             route_reply.optimized_order[i].floor
               <= route_reply.optimized_order[i + 1].floor

\* a calculate_route call whose ids were given floor 3 first and floor 1
\* last: the route returned visits them in the opposite order
WitC10_ReorderedRoute ==
    /\ route_tool = "calculate_route" /\ IsRoute(route_reply)
    /\ Len(shop_ids) = 3
    /\ shop_ids = <<1, 3, 4>>
    /\ route_reply.optimized_order[1].shop_name = "Cafe Uno"
    /\ route_reply.optimized_order[3].shop_name = "Denim Co"

\* the shop a stop of a route stands for: names are unique in the catalog
IdOfName(shop_name) ==
    Catalog[CHOOSE k \in 1..Len(Catalog) : Catalog[k].name = shop_name].id

Resolves(shop_id) == FirstWithId(shop_id) # <<>>

\* the ids of a list that resolve to a shop of floor f, in the order of the list
OnFloor(ids, f) ==
    SelectSeq(ids, LAMBDA x : Resolves(x) /\ FirstWithId(x)[1].floor = f)

\* a list without the repetitions of an id: the first occurrence is kept
RECURSIVE FirstOccurrences(_)
FirstOccurrences(ids) ==
    IF ids = <<>> THEN <<>>
    ELSE LET front == FirstOccurrences(SubSeq(ids, 1, Len(ids) - 1))
         IN  IF ids[Len(ids)] \in SeqRange(front) THEN front
             ELSE Append(front, ids[Len(ids)])

\* the ids of the stops of a route, in route order
OrderIds(reply) ==
    [i \in 1..Len(reply.optimized_order) |-> IdOfName(reply.optimized_order[i].shop_name)]

CatalogFloors == { Catalog[k].floor : k \in 1..Len(Catalog) }

\* C11: in both route variants the stops of one floor appear in the route in
\* the order in which their ids appear in shop_ids (an id given twice counts
\* at each occurrence, or at its first one).
CexC11_TiesInInputOrder ==
    (route_tool \in {"calculate_route", "calculate_accessible_route"}
       /\ IsRoute(route_reply))
    => \A f \in CatalogFloors :
          OnFloor(OrderIds(route_reply), f)
            \in { OnFloor(shop_ids, f), FirstOccurrences(OnFloor(shop_ids, f)) }

\* the stops and the distinct floors of a route, counted on the route itself
StopCount(reply) == Len(reply.optimized_order)
DistinctFloorCount(reply) ==
    Cardinality({ reply.optimized_order[i].floor : i \in 1..Len(reply.optimized_order) })

\* C12: calculate_route reports 15 minutes per stop plus 3 per distinct floor
\* of the route; calculate_accessible_route reports 20 per stop plus 5 per
\* distinct floor and as many rest points as distinct floors.
ThmC12_EstimatedMinutes ==
    /\ (route_tool = "calculate_route" /\ IsRoute(route_reply))
       => route_reply.estimated_time_minutes
            = 15 * StopCount(route_reply) + 3 * DistinctFloorCount(route_reply)
    /\ (route_tool = "calculate_accessible_route" /\ IsRoute(route_reply))
       => /\ route_reply.estimated_time_minutes
               = 20 * StopCount(route_reply) + 5 * DistinctFloorCount(route_reply)
          /\ route_reply.rest_points = DistinctFloorCount(route_reply)

\* calculate_route was asked for two stops on floors 1 and 3 and reported 36
\* minutes
WitC12_TwoStopsTwoFloors ==
    /\ route_tool = "calculate_route" /\ IsRoute(route_reply)
    /\ StopCount(route_reply) = 2
    /\ route_reply.floors_visited = <<1, 3>>
    /\ route_reply.estimated_time_minutes = 36

RouteFields ==
    { "optimized_order", "floors_visited", "estimated_time_minutes", "total_shops",
      "floor_changes", "accessibility_features", "accessibility_notes" }

\* C13: in both route variants a shop_ids list that is empty or resolves to
\* no shop of the catalog gets the error 'No valid shops found' and no route
\* field; a route is returned only when an id resolves.
ThmC13_NoValidShopsError ==
    route_tool \in {"calculate_route", "calculate_accessible_route"}
    => IF \E i \in 1..Len(shop_ids) : Resolves(shop_ids[i])
       THEN IsRoute(route_reply) /\ "error" \notin route_reply.keys
       ELSE /\ "error" \in route_reply.keys
            /\ route_reply.error = "No valid shops found"
            /\ route_reply.keys \cap RouteFields = {}

\* the accessible variant was given unknown ids only and answered with the error
WitC13_UnknownIdsOnly ==
    /\ route_tool = "calculate_accessible_route"
    /\ shop_ids = <<UnknownId, UnknownId>>
    /\ "error" \in route_reply.keys

(***************************************************************************)
(* verify_route (src/mall_tools.py).  A report is                          *)
(*   [keys, verified, checks]  or  [keys, verified, error];                *)
(* a check is [constraint, required, actual, passed].  list(a_set) is kept *)
(* as the set: json.dumps writes its members in the iteration order of the *)
(* set, which one server process fixes for a given set built the same way. *)
(***************************************************************************)
CategorySet(stops) == { stops[i].category : i \in 1..Len(stops) }

\* estimated_time = len(shops) * 15 + len(floors) * 3
estimated_time(found) == Len(found) * 15 + Cardinality(FloorSet(found)) * 3

MaxOf(ns) == CHOOSE n \in ns : \A m \in ns : m <= n

Check(constraint, required, actual, passed) ==
    [ constraint |-> constraint, required |-> required, actual |-> actual,
      passed |-> passed ]

\* "if 'max_floors' in constraints: ..."
MaxFloorsCheck(found, cons) ==
    IF "max_floors" \in cons.keys
    THEN << Check("max_floors", cons.max_floors, Cardinality(FloorSet(found)),
                  Cardinality(FloorSet(found)) <= cons.max_floors) >>
    ELSE <<>>

\* "if 'max_time_minutes' in constraints: ..."
MaxTimeCheck(found, cons) ==
    IF "max_time_minutes" \in cons.keys
    THEN << Check("max_time_minutes", cons.max_time_minutes, estimated_time(found),
                  estimated_time(found) <= cons.max_time_minutes) >>
    ELSE <<>>

\* "if 'required_categories' in constraints: ..."
RequiredCategoriesCheck(found, cons) ==
    IF "required_categories" \in cons.keys
    THEN LET required_cats == SeqRange(cons.required_categories)
         IN  << Check("required_categories", required_cats, CategorySet(found),
                      required_cats \subseteq CategorySet(found)) >>
    ELSE <<>>

\* a threshold of three floors instead of two
LowerFloorsUpTo3(max_floor) == max_floor <= 3
\* lower_floors_ok = max_floor <= 2
LowerFloorsOk(max_floor) == max_floor <= 2

\* "if 'lower_floors_only' in constraints and constraints['lower_floors_only']: ..."
LowerFloorsCheck(found, cons) ==
    IF "lower_floors_only" \in cons.keys /\ cons.lower_floors_only
    THEN LET max_floor == MaxOf(FloorSet(found))
         IN  << Check("lower_floors_only", "Floors 1-2", <<"Max floor", max_floor>>,
                      LowerFloorsOk(max_floor)) >>
    ELSE <<>>

\* json.dumps({"verified": False, "error": "No valid shops"})
NoValidShopsReport ==
    [keys |-> {"verified", "error"}, verified |-> FALSE, error |-> "No valid shops"]

\* a verdict that follows the last check evaluated
AfterCheckLastWins(verified, check) ==
    IF check # <<>> THEN check[1].passed ELSE verified
\* "if not ..._ok: verification['verified'] = False", after a check was appended
AfterCheck(verified, check) ==
    IF check # <<>> /\ ~check[1].passed THEN FALSE ELSE verified

verify_route(ids, cons) ==
    LET found == FilterCatalog(ids)
        floors_check == MaxFloorsCheck(found, cons)
        time_check == MaxTimeCheck(found, cons)
        categories_check == RequiredCategoriesCheck(found, cons)
        lower_check == LowerFloorsCheck(found, cons)
    IN  IF found = <<>> THEN NoValidShopsReport
        ELSE [ keys |-> {"verified", "checks"},
               verified |->
                   AfterCheck(AfterCheck(AfterCheck(AfterCheck(TRUE, floors_check),
                                                    time_check),
                                         categories_check),
                              lower_check),
               checks |-> floors_check \o time_check \o categories_check \o lower_check ]

(***************************************************************************)
(* The lost-and-found tools.  A record of the registry is                  *)
(* [item_id, description, origin]; origin tells a logged item from one of  *)
(* the three sample items.  "term in description.lower()" is read off the  *)
(* Mentions table.                                                         *)
(***************************************************************************)
SampleItems ==
    << [item_id |-> 101, description |-> "Black iPhone 15 Pro", origin |-> "sample"],
       [item_id |-> 102, description |-> "Brown leather wallet", origin |-> "sample"],
       [item_id |-> 103, description |-> "Car keys with BMW keychain", origin |-> "sample"] >>

LoggedDescriptions == { "Red phone case" }
SearchTerms == { "phone", "umbrella" }

\* item_type_lower in item["description"].lower()
Mentions(description, item_type) ==
    <<description, item_type>> \in { <<"Black iPhone 15 Pro", "phone">>,
                                     <<"Red phone case", "phone">> }

\* a logger that files the new record in front of the others
LogAtFront(description, reg) ==
    LET item_id == Len(reg) + 1
        lost_item == [item_id |-> item_id, description |-> description,
                      origin |-> "logged"]
    IN  [ reply |-> [ keys |-> {"success", "item_id", "message", "item_details"},
                      success |-> TRUE, item_id |-> item_id,
                      item_details |-> lost_item ],
          registry |-> <<lost_item>> \o reg ]

\* log_lost_item: [reply, registry after the call]
log_lost_item(description, reg) ==
    LET item_id == Len(reg) + 1
        lost_item == [item_id |-> item_id, description |-> description,
                      origin |-> "logged"]
    IN  [ reply |-> [ keys |-> {"success", "item_id", "message", "item_details"},
                      success |-> TRUE, item_id |-> item_id,
                      item_details |-> lost_item ],
          registry |-> Append(reg, lost_item) ]

\* search_lost_and_found: [reply, registry after the call]
search_lost_and_found(item_type, reg) ==
    LET seeded == IF reg = <<>> THEN SampleItems ELSE reg
        matching_items == SelectSeq(seeded, LAMBDA item : Mentions(item.description, item_type))
    IN  [ reply |-> [ keys |-> {"search_term", "total_found", "matching_items",
                                "instructions"},
                      search_term |-> item_type,
                      total_found |-> Len(matching_items),
                      matching_items |-> matching_items ],
          registry |-> seeded ]

\* a verifier that counts the registry's records into its estimate
VerifyRouteCountsRegistry(ids, cons, reg) ==
    [ reply |-> verify_route(ids \o [k \in 1..Len(reg) |-> 3], cons), registry |-> reg ]
\* the verify_route tool as the server runs it: [reply, registry after the call]
VerifyRouteTool(ids, cons, reg) ==
    [ reply |-> verify_route(ids, cons), registry |-> reg ]

(***************************************************************************)
(* SpecBackend: one server process serves a client that verifies a route   *)
(* and verifies the same route again, with lost-and-found calls before,    *)
(* between and after.  The server handles one call at a time.              *)
(***************************************************************************)
MaxVerifyIds == 2   \* longest shop_ids list given to verify_route
MaxLogged == 1      \* most items logged by log_lost_item

VerifyIdLists ==
    SeqsUpTo({ Catalog[k].id : k \in 1..Len(Catalog) } \cup {UnknownId}, MaxVerifyIds)

ConstraintSets ==
    { Constraints(keys, mf, 33, rc, lf) :
        keys \in SUBSET { "max_floors", "max_time_minutes", "required_categories",
                          "lower_floors_only" },
        mf \in {1, 2}, rc \in { <<"Food">>, <<"Food", "Books">> }, lf \in BOOLEAN }

\* two dicts whose absent keys differ in nothing are the same dict
Normal(cons) ==
    Constraints(cons.keys,
                IF "max_floors" \in cons.keys THEN cons.max_floors ELSE 0,
                IF "max_time_minutes" \in cons.keys THEN cons.max_time_minutes ELSE 0,
                IF "required_categories" \in cons.keys THEN cons.required_categories ELSE <<>>,
                IF "lower_floors_only" \in cons.keys THEN cons.lower_floors_only ELSE FALSE)

ConstraintDicts == { Normal(cons) : cons \in ConstraintSets }

LoggedCount == Cardinality({ k \in 1..Len(registry) : registry[k].origin = "logged" })

InitBackend ==
    IdleBackend /\ IdleRoute /\ IdleAgg /\ IdlePar /\ IdleAlloc /\ IdleExec /\ IdleLimiter

\* what a verify_route call does to the state of the model
VerifyRouteCalled(ids, cons) ==
    LET done == VerifyRouteTool(ids, cons, registry)
    IN  /\ shop_ids' = ids
        /\ constraints' = cons
        /\ route_tool' = "verify_route"
        /\ route_reply' = done.reply
        /\ registry' = done.registry
        /\ first_report' = IF first_report = <<>>
                           THEN << [ids |-> ids, cons |-> cons, report |-> done.reply,
                                    seen |-> registry] >>
                           ELSE first_report
        /\ UNCHANGED notBackend

\* the client's first verify_route call
CallVerifyRoute ==
    /\ route_tool = "none"
    /\ first_report = <<>>
    /\ \E ids \in VerifyIdLists, cons \in ConstraintDicts : VerifyRouteCalled(ids, cons)

\* the client repeats its verify_route call
CallVerifyRouteAgain ==
    /\ route_tool = "none"
    /\ first_report # <<>>
    /\ VerifyRouteCalled(first_report[1].ids, first_report[1].cons)

CallLogLostItem ==
    \E description \in LoggedDescriptions :
        LET done == log_lost_item(description, registry)
        IN  /\ route_tool = "none"
            /\ LoggedCount < MaxLogged
            /\ route_tool' = "log_lost_item"
            /\ route_reply' = done.reply
            /\ registry' = done.registry
            /\ UNCHANGED <<shop_ids, constraints, first_report, notBackend>>

CallSearchLostAndFound ==
    \E item_type \in SearchTerms :
        LET done == search_lost_and_found(item_type, registry)
        IN  /\ route_tool = "none"
            /\ route_tool' = "search_lost_and_found"
            /\ route_reply' = done.reply
            /\ registry' = done.registry
            /\ UNCHANGED <<shop_ids, constraints, first_report, notBackend>>

\* the TextContent has been sent; the registry stays as the call left it
BackendReplySent ==
    /\ route_tool # "none"
    /\ shop_ids' = <<>>
    /\ constraints' = NoConstraints
    /\ route_tool' = "none"
    /\ route_reply' = [keys |-> {}]
    /\ UNCHANGED <<registry, first_report, notBackend>>

NextBackend ==
    \/ CallVerifyRoute \/ CallVerifyRouteAgain
    \/ CallLogLostItem \/ CallSearchLostAndFound \/ BackendReplySent

SpecBackend == InitBackend /\ [][NextBackend]_vars

(***************************************************************************)
(* Properties of verify_route (SpecBackend).                               *)
(***************************************************************************)
ConstraintKeys ==
    { "max_floors", "max_time_minutes", "required_categories", "lower_floors_only" }

IsReport(reply) == "checks" \in reply.keys

RecordsFor(reply, key) ==
    { k \in 1..Len(reply.checks) : reply.checks[k].constraint = key }

AllPassed(reply) == \A k \in 1..Len(reply.checks) : reply.checks[k].passed

\* C14 as stated: the report has exactly one check record for each of the
\* four constraint keys present in the constraints and none for an absent
\* key, and verified is the AND of the passed flags.
CexC14_OneRecordPerPresentKey ==
    (route_tool = "verify_route" /\ IsReport(route_reply))
    => /\ \A key \in ConstraintKeys :
             Cardinality(RecordsFor(route_reply, key))
               = IF key \in constraints.keys THEN 1 ELSE 0
       /\ route_reply.verified = AllPassed(route_reply)

\* the keys verify_route evaluates: lower_floors_only counts when it is true
EvaluatedKeys(cons) ==
    { key \in cons.keys : key = "lower_floors_only" => cons.lower_floors_only }

\* C14 (amended): the report has exactly one check record for each of
\* max_floors, max_time_minutes, required_categories present in the
\* constraints and for lower_floors_only when it is present and true, no
\* other record, and verified is the AND of the passed flags (true when no
\* constraint is evaluated).
ThmC14_OneRecordPerEvaluatedKey ==
    (route_tool = "verify_route" /\ IsReport(route_reply))
    => /\ \A key \in ConstraintKeys :
             Cardinality(RecordsFor(route_reply, key))
               = IF key \in EvaluatedKeys(constraints) THEN 1 ELSE 0
       /\ Len(route_reply.checks) = Cardinality(EvaluatedKeys(constraints))
       /\ route_reply.verified = AllPassed(route_reply)

\* max_floors = 1 against stops on floors 1 and 3: one check, required 1,
\* actual 2, not passed, not verified
WitC14_ScenarioB ==
    /\ route_tool = "verify_route" /\ IsReport(route_reply)
    /\ constraints.keys = {"max_floors"} /\ constraints.max_floors = 1
    /\ shop_ids = <<4, 1>>
    /\ Len(route_reply.checks) = 1
    /\ route_reply.checks[1].required = 1 /\ route_reply.checks[1].actual = 2
    /\ ~route_reply.checks[1].passed /\ ~route_reply.verified

\* the floors and categories of the shops that the ids of a list resolve to
ResolvedShops(ids) == { FirstWithId(ids[i])[1] : i \in { j \in 1..Len(ids) : Resolves(ids[j]) } }
FloorsTouched(ids) == { sh.floor : sh \in ResolvedShops(ids) }
CategoriesTouched(ids) == { sh.category : sh \in ResolvedShops(ids) }

\* C15: a max_floors record passes iff the number of distinct floors touched
\* is at most the required value, a required_categories record iff the
\* required categories are all categories of resolved stops, a
\* lower_floors_only record iff the highest floor touched is at most 2.
ThmC15_CheckSemantics ==
    (route_tool = "verify_route" /\ IsReport(route_reply))
    => \A k \in 1..Len(route_reply.checks) :
          LET check == route_reply.checks[k]
          IN  /\ check.constraint = "max_floors"
                 => (check.passed
                       <=> Cardinality(FloorsTouched(shop_ids)) <= constraints.max_floors)
              /\ check.constraint = "required_categories"
                 => (check.passed
                       <=> SeqRange(constraints.required_categories)
                             \subseteq CategoriesTouched(shop_ids))
              /\ check.constraint = "lower_floors_only"
                 => (check.passed <=> \A f \in FloorsTouched(shop_ids) : f <= 2)

\* a report whose lower_floors_only record fails on floor 3 while its
\* required_categories record passes
WitC15_Floor3FailsLowerFloors ==
    /\ route_tool = "verify_route" /\ IsReport(route_reply)
    /\ 3 \in FloorsTouched(shop_ids)
    /\ \E k \in RecordsFor(route_reply, "lower_floors_only") : ~route_reply.checks[k].passed
    /\ \E k \in RecordsFor(route_reply, "required_categories") : route_reply.checks[k].passed

\* C16: the actual value of the max_time_minutes record is the
\* estimated_time_minutes calculate_route reports for the same shop_ids, and
\* the record passes iff that value is at most the required value.
CexC16_SameEstimateAsCalculateRoute ==
    (route_tool = "verify_route" /\ IsReport(route_reply))
    => \A k \in RecordsFor(route_reply, "max_time_minutes") :
          /\ route_reply.checks[k].actual = calculate_route(shop_ids).estimated_time_minutes
          /\ route_reply.checks[k].passed
               <=> route_reply.checks[k].actual <= constraints.max_time_minutes

APOLOGY == "I apologize, but I encountered an error processing your request. Could you rephrase?"
NO_SHOPS == "I couldn't find any shops matching your criteria. Would you like to adjust your search?"
GENERIC == "I've processed your request. How else can I help?"

\* "if x:" on a decoded JSON value or an unset slot
Truthy(v) ==
    CASE v.t = "obj" -> v.key # ""
      [] v.t = "list" -> v.items # <<>>
      [] v.t = "num" -> v.val # ""
      [] OTHER -> FALSE

\* what the two regular expressions of _extract_time_constraint find in a
\* step description: <<>> nothing, <<n>> n minutes
TimeMention(description) ==
    CASE description = "The user has 2 hours" -> <<120>>
      [] OTHER -> <<>>

RECURSIVE ExtractFrom(_, _)
ExtractFrom(steps, i) ==
    IF i > Len(steps) THEN <<>>
    ELSE IF TimeMention(steps[i]) # <<>> THEN TimeMention(steps[i])
         ELSE ExtractFrom(steps, i + 1)

_extract_time_constraint(p) == ExtractFrom(p.reasoning_steps, 1)

\* "for rec in recommendations: if 'id' in rec and rec['id'] not in [...]:
\*  all_stops.append(rec)", from the i-th recommendation on
RECURSIVE AddRecommendations(_, _, _)
AddRecommendations(all_stops, recommendations, i) ==
    IF i > Len(recommendations) THEN all_stops
    ELSE LET rec == recommendations[i]
         IN  IF rec.hasId /\ ~\E k \in 1..Len(all_stops) : all_stops[k].id = rec.id
             THEN AddRecommendations(Append(all_stops, rec), recommendations, i + 1)
             ELSE AddRecommendations(all_stops, recommendations, i + 1)

\* the stops in the shape _calculate_time_allocations reads: no entry has a
\* 'category', so every stop gets the default base duration
AllocStops(all_stops) ==
    [k \in 1..Len(all_stops) |-> [id |-> all_stops[k].id, category |-> "none"]]

\* time_allocs.get(shop_id, {}): <<entry>> or <<>>, which prints 'TBD'
TimeAlloc(time_allocs, shop_id) ==
    SelectSeq(time_allocs, LAMBDA entry : entry.shop_id = shop_id)

\* x.get(...) on each record of a list: the records that are no objects raise
HasNonObject(entries) == \E k \in 1..Len(entries) : entries[k].t # "obj"

Rendered(renderer, kind) == Response(renderer, kind, "", <<>>, "none")
RaisedIn(renderer, exc) == Response(renderer, "raised", "", <<>>, exc)

\* an itinerary that shows the shops only
ShopsOnly(shop_list, recommendations) == shop_list
\* all_stops = shops[:] followed by the loop over the recommendations
AllStops(shop_list, recommendations) == AddRecommendations(shop_list, recommendations, 1)

_create_detailed_itinerary(d, user_time_constraint, current_time) ==
    LET all_stops == AllStops(d.shops, d.recommendations)
        time_allocs == _calculate_time_allocations(AllocStops(all_stops),
                                                   user_time_constraint, current_time)
        me == "_create_detailed_itinerary"
    IN  IF \E k \in 1..Len(d.recommendations) : IdTestRaises(d.recommendations[k])
        THEN RaisedIn(me, "TypeError")
        ELSE IF all_stops = <<>> THEN Response(me, "no_shops", NO_SHOPS, <<>>, "none")
        ELSE IF Truthy(d.route) /\ d.route.t # "obj" THEN RaisedIn(me, "AttributeError")
        ELSE IF \/ HasNonObject(d.shop_hours) \/ HasNonObject(d.wait_times)
                \/ HasNonObject(d.events)
                \/ HasNonObject(SubSeq(d.facilities, 1, IF Len(d.facilities) < 3
                                                        THEN Len(d.facilities) ELSE 3))
             THEN RaisedIn(me, "AttributeError")
        ELSE Response(me, "itinerary", "",
                      [k \in 1..Len(all_stops) |->
                          [ stop |-> all_stops[k],
                            time |-> TimeAlloc(time_allocs, all_stops[k].id) ]],
                      "none")

_format_shop_details(shop) ==
    IF shop.t # "obj" THEN RaisedIn("_format_shop_details", "AttributeError")
    ELSE Rendered("_format_shop_details", "shop_details")

_format_route(route) ==
    IF route.t = "num" THEN RaisedIn("_format_route", "TypeError")
    ELSE Rendered("_format_route", "route")

_format_facilities(facilities) ==
    IF HasNonObject(facilities) THEN RaisedIn("_format_facilities", "AttributeError")
    ELSE Rendered("_format_facilities", "facilities")

_format_events(events) ==
    IF HasNonObject(events) THEN RaisedIn("_format_events", "AttributeError")
    ELSE Rendered("_format_events", "events")

_format_lost_and_found(items) ==
    IF HasNonObject(items) THEN RaisedIn("_format_lost_and_found", "AttributeError")
    ELSE Rendered("_format_lost_and_found", "lost_found")

_format_wait_times(wait_times) ==
    IF HasNonObject(wait_times) THEN RaisedIn("_format_wait_times", "AttributeError")
    ELSE Rendered("_format_wait_times", "wait_times")

\* a list that keeps the failed outcomes
EveryResult(rs) == rs
\* successful_results = [r for r in tool_results if r.success]
successful_results(rs) == SelectSeq(rs, LAMBDA r : r.success)

\* a renderer that looks at the final answer only when no tool was planned
FinalAnswerIfNoTools(p) ==
    p.final_answer # <<>> /\ p.final_answer[1] # "" /\ p.tool_calls = <<>>
\* "if plan.final_answer:": None and the empty string are falsy
HasFinalAnswer(p) == p.final_answer # <<>> /\ p.final_answer[1] # ""

\* the cases checked with the route ahead of the shop details
SelectRouteFirst(d, itinerary) ==
    IF d.shops # <<>> \/ d.recommendations # <<>> THEN itinerary
    ELSE IF Truthy(d.route) THEN _format_route(d.route)
    ELSE IF d.shop_details # <<>> THEN _format_shop_details(d.shop_details[1])
    ELSE IF d.facilities # <<>> THEN _format_facilities(d.facilities)
    ELSE IF d.events # <<>> THEN _format_events(d.events)
    ELSE IF d.lost_found # <<>> THEN _format_lost_and_found(d.lost_found)
    ELSE IF d.wait_times # <<>> THEN _format_wait_times(d.wait_times)
    ELSE Response("_synthesize_response", "generic", GENERIC, <<>>, "none")
\* "PHASE 2: Determine response type based on available data", Case 1 to
\* Case 7 and the final fallback; itinerary is what Case 1 returns
SelectResponse(d, itinerary) ==
    IF d.shops # <<>> \/ d.recommendations # <<>> THEN itinerary
    ELSE IF d.shop_details # <<>> THEN _format_shop_details(d.shop_details[1])
    ELSE IF Truthy(d.route) THEN _format_route(d.route)
    ELSE IF d.facilities # <<>> THEN _format_facilities(d.facilities)
    ELSE IF d.events # <<>> THEN _format_events(d.events)
    ELSE IF d.lost_found # <<>> THEN _format_lost_and_found(d.lost_found)
    ELSE IF d.wait_times # <<>> THEN _format_wait_times(d.wait_times)
    ELSE Response("_synthesize_response", "generic", GENERIC, <<>>, "none")

_synthesize_response(p, rs, current_time) ==
    IF HasFinalAnswer(p)
    THEN Response("_synthesize_response", "final_answer", p.final_answer[1], <<>>, "none")
    ELSE IF successful_results(rs) = <<>>
    THEN Response("_synthesize_response", "apology", APOLOGY, <<>>, "none")
    ELSE LET agg == _aggregate_tool_results(successful_results(rs))
         IN  IF agg.exc # "none" THEN RaisedIn("_aggregate_tool_results", agg.exc)
             ELSE SelectResponse(agg.data,
                                 _create_detailed_itinerary(agg.data,
                                                            _extract_time_constraint(p),
                                                            current_time))

(***************************************************************************)
(* SpecSynth: _synthesize_response is called once on a plan and a list of  *)
(* ToolResults.  The lists are drawn from SynthOutcomes: an outcome for    *)
(* every field of the dataset, recommendations with and without an 'id',   *)
(* a shop whose id is 0, failed outcomes and payloads of a wrong shape.    *)
(***************************************************************************)
SynthOutcomes ==
    { ToolResult("search_shops", TRUE, JList(<<Shop(1, "a")>>), ""),
      ToolResult("search_shops", TRUE, JList(<<Shop(0, "a")>>), ""),
      ToolResult("search_shops", FALSE, JList(<<Shop(2, "a")>>), "boom"),
      ToolResult("get_recommendations", TRUE, JList(<<Shop(2, "b")>>), ""),
      ToolResult("get_recommendations", TRUE, JList(<<Shop(1, "b")>>), ""),
      ToolResult("get_recommendations", TRUE, JList(<<ShopNoId>>), ""),
      ToolResult("get_shop_details", TRUE, JObj("name", "x"), ""),
      ToolResult("calculate_route", TRUE, JObj("total_shops", "x"), ""),
      ToolResult("calculate_route", FALSE, JEmpty, "boom"),
      ToolResult("verify_route", TRUE, JObj("verified", "x"), ""),
      ToolResult("verify_route", TRUE, JList(<<>>), ""),
      ToolResult("get_mall_facilities", TRUE, JList(<<ShopNoId>>), ""),
      ToolResult("get_mall_facilities", TRUE, JList(<<NumEntry>>), ""),
      ToolResult("get_current_events", TRUE, JList(<<ShopNoId>>), ""),
      ToolResult("search_lost_and_found", TRUE, JList(<<Shop(1, "a")>>), ""),
      ToolResult("check_wait_time", TRUE, JObj("location", "x"), ""),
      ToolResult("show_reasoning", TRUE, JObj("steps", "x"), "") }

FinalAnswers ==
    { <<>>, <<"">>, <<"I can help you navigate. Which floor or shop are you looking for?">> }

ReasoningSteps == { <<>>, <<"The user has 2 hours">> }

InitSynth ==
    /\ plan \in { DecisionPlan(steps, <<>>, answer) :
                    steps \in ReasoningSteps, answer \in FinalAnswers }
    /\ tool_results \in SeqsUpTo(SynthOutcomes, MaxResults)
    /\ exec_pc = "synthesize"
    /\ issued = <<>>
    /\ reasoning_trace = <<>>
    /\ final_response = NoResponse
    /\ action_result = NoActionResult
    /\ IdleAgg /\ IdlePar /\ IdleAlloc /\ IdleRoute /\ IdleBackend /\ IdleLimiter

SynthesizeCall ==
    /\ exec_pc = "synthesize"
    /\ \E current_time \in NowChoices :
          final_response' = _synthesize_response(plan, tool_results, current_time)
    /\ exec_pc' = "synthesized"
    /\ UNCHANGED <<plan, issued, tool_results, reasoning_trace, action_result, notExec>>

NextSynth == SynthesizeCall

SpecSynth == InitSynth /\ [][NextSynth]_vars

(***************************************************************************)
(* Properties of _synthesize_response (SpecSynth).                         *)
(***************************************************************************)
\* the dataset the call aggregated from the successful outcomes
SynthDataset == _aggregate_tool_results(SelectSeq(tool_results, LAMBDA r : r.success))

NoFinalAnswer == plan.final_answer \in { <<>>, <<"">> }

SomeSuccess == \E i \in 1..Len(tool_results) : tool_results[i].success

\* the fields of the dataset in the order of the priority table, each with
\* the renderer of its shape
PriorityTable(d) ==
    << [present |-> d.shops # <<>> \/ d.recommendations # <<>>,
        renderer |-> "_create_detailed_itinerary"],
       [present |-> d.shop_details # <<>>, renderer |-> "_format_shop_details"],
       [present |-> d.route.t # "none" /\ Truthy(d.route), renderer |-> "_format_route"],
       [present |-> d.facilities # <<>>, renderer |-> "_format_facilities"],
       [present |-> d.events # <<>>, renderer |-> "_format_events"],
       [present |-> d.lost_found # <<>>, renderer |-> "_format_lost_and_found"],
       [present |-> d.wait_times # <<>>, renderer |-> "_format_wait_times"] >>

FirstPresent(d) == { k \in 1..7 : PriorityTable(d)[k].present
                                   /\ \A j \in 1..(k - 1) : ~PriorityTable(d)[j].present }

\* C18: with no final answer, a successful outcome and a dataset aggregated,
\* the response is rendered by the renderer of the first non-empty field in
\* the order shops or recommendations, shop details, route, facilities,
\* events, lost-and-found, wait times, whatever later fields hold; with no
\* field non-empty it is the generic acknowledgment.
ThmC18_StrictPriority ==
    (exec_pc = "synthesized" /\ NoFinalAnswer /\ SomeSuccess
       /\ SynthDataset.exc = "none")
    => /\ \A k \in FirstPresent(SynthDataset.data) :
             final_response.renderer = PriorityTable(SynthDataset.data)[k].renderer
       /\ FirstPresent(SynthDataset.data) = {}
             => final_response.kind = "generic" /\ final_response.text = GENERIC

\* shop details and a route are both in the dataset; the response is the
\* shop detail card
WitC18_ShopDetailsBeforeRoute ==
    /\ exec_pc = "synthesized" /\ NoFinalAnswer
    /\ SynthDataset.exc = "none"
    /\ SynthDataset.data.shop_details # <<>> /\ Truthy(SynthDataset.data.route)
    /\ SynthDataset.data.shops = <<>> /\ SynthDataset.data.recommendations = <<>>
    /\ final_response.kind = "shop_details"

\* an itinerary has a STOP entry with a time window for a stop of the dataset
StopRendered(response, entry) ==
    \E k \in 1..Len(response.stops) :
        /\ IF entry.hasId THEN response.stops[k].stop.hasId
                               /\ response.stops[k].stop.id = entry.id
           ELSE response.stops[k].stop = entry
        /\ response.stops[k].time # <<>>

\* C19: when the dataset holds a shop or a recommended stop, the response
\* rendered is the itinerary, with one STOP entry and its time window for
\* each shop and each recommended stop (a recommendation that repeats the
\* id of a stop counts as that stop).
CexC19_ItineraryForEveryStop ==
    (exec_pc = "synthesized" /\ NoFinalAnswer /\ SomeSuccess
       /\ SynthDataset.exc = "none" /\ final_response.exc = "none"
       /\ (SynthDataset.data.shops # <<>> \/ SynthDataset.data.recommendations # <<>>))
    => /\ final_response.kind = "itinerary"
       /\ \A entry \in SeqRange(SynthDataset.data.shops)
                         \cup SeqRange(SynthDataset.data.recommendations) :
             StopRendered(final_response, entry)

(***************************************************************************)
(* SpecExec: execute runs one plan.  It awaits _execute_tool for each      *)
(* planned call in turn, so the next call is sent to the backend only when *)
(* the ToolResult of the previous one has been appended; the backend       *)
(* returns a content or raises.  An entry of the reasoning trace is        *)
(* <<"step", description>> or <<"failed", tool_name, error>>.              *)
(***************************************************************************)
MaxPlan == 2    \* longest tool_calls list of a plan

ExecTools ==
    { "search_shops", "calculate_route", "calculate_accessible_route",
      "get_mall_facilities" }

\* json.loads of the text calculate_route and calculate_accessible_route
\* return for ids that resolve to no shop
NoValidShopsText == JObj("error", NoValidShops.error)

\* what session.call_tool returns for a tool of ExecTools
ExecContents(tool_name) ==
    CASE tool_name = "search_shops" -> { JList(<<Shop(1, "a")>>) }
      [] tool_name = "calculate_route" -> { JObj("total_shops", "x"), NoValidShopsText }
      [] tool_name = "calculate_accessible_route" -> { NoValidShopsText }
      [] OTHER -> { JList(<<ShopNoId>>), JList(<<NumEntry>>) }

\* a flag that is true as soon as one outcome is successful
AnySuccess(rs) == \E i \in 1..Len(rs) : rs[i].success
\* all(r.success for r in tool_results)
AllSuccess(rs) == \A i \in 1..Len(rs) : rs[i].success

\* a loop that gives up after a failed call
HasNextCallUntilFailure(p, rs) == Len(rs) < Len(p.tool_calls) /\ AllSuccess(rs)
\* "for tool_call in plan.tool_calls": a planned call is still to be made
HasNextCall(p, rs) == Len(rs) < Len(p.tool_calls)

\* a trace that gets an entry for every call
TraceEveryCall(trace, tool_name, result) ==
    Append(trace, <<"failed", tool_name, result.error>>)
\* "if not result.success: reasoning_trace.append(f'... {tool_name} failed: {result.error}')"
FailureTrace(trace, tool_name, result) ==
    IF ~result.success THEN Append(trace, <<"failed", tool_name, result.error>>)
    ELSE trace

InitExec ==
    /\ plan \in { DecisionPlan(steps, calls, answer) :
                    steps \in ReasoningSteps, calls \in SeqsUpTo(ExecTools, MaxPlan),
                    answer \in FinalAnswers }
    /\ exec_pc = "call"
    /\ issued = <<>>
    /\ tool_results = <<>>
    /\ reasoning_trace = <<>>
    /\ final_response = NoResponse
    /\ action_result = NoActionResult
    /\ IdleAgg /\ IdlePar /\ IdleAlloc /\ IdleRoute /\ IdleBackend /\ IdleLimiter

\* "for step in plan.reasoning_steps: reasoning_trace.append(...)"
ExecuteCall ==
    /\ exec_pc = "call"
    /\ reasoning_trace' = [k \in 1..Len(plan.reasoning_steps) |->
                              <<"step", plan.reasoning_steps[k]>>]
    /\ exec_pc' = "loop"
    /\ UNCHANGED <<plan, issued, tool_results, final_response, action_result, notExec>>

\* the loop reaches "await self._execute_tool(...)" for the next planned call
IssueTool ==
    /\ exec_pc = "loop"
    /\ HasNextCall(plan, tool_results)
    /\ issued' = Append(issued, plan.tool_calls[Len(tool_results) + 1])
    /\ exec_pc' = "awaiting"
    /\ UNCHANGED <<plan, tool_results, reasoning_trace, final_response, action_result,
                   notExec>>

\* _execute_tool has returned its ToolResult to the loop
ToolDone(b) ==
    LET tool_name == plan.tool_calls[Len(tool_results) + 1]
        result == _execute_tool(tool_name, b).value
    IN  /\ tool_results' = Append(tool_results, result)
        /\ reasoning_trace' = FailureTrace(reasoning_trace, tool_name, result)
        /\ exec_pc' = "loop"
        /\ UNCHANGED <<plan, issued, final_response, action_result, notExec>>

CallToolReturns ==
    /\ exec_pc = "awaiting"
    /\ \E content \in ExecContents(plan.tool_calls[Len(tool_results) + 1]) :
          ToolDone(BackendReturned(content))

CallToolRaises ==
    /\ exec_pc = "awaiting"
    /\ \E message \in BackendErrors : ToolDone(BackendRaised(message))

\* the loop is over: _synthesize_response, then the ActionResult; an
\* exception of _synthesize_response leaves execute
ExecuteReturn ==
    /\ exec_pc = "loop"
    /\ ~HasNextCall(plan, tool_results)
    /\ \E current_time \in NowChoices :
          LET response == _synthesize_response(plan, tool_results, current_time)
          IN  /\ final_response' = response
              /\ IF response.exc # "none"
                 THEN exec_pc' = "raised" /\ UNCHANGED action_result
                 ELSE /\ exec_pc' = "done"
                      /\ action_result' = ActionResult(tool_results, response,
                                                       reasoning_trace,
                                                       AllSuccess(tool_results))
    /\ UNCHANGED <<plan, issued, tool_results, reasoning_trace, notExec>>

NextExec ==
    ExecuteCall \/ IssueTool \/ CallToolReturns \/ CallToolRaises \/ ExecuteReturn

SpecExec == InitExec /\ [][NextExec]_vars

(***************************************************************************)
(* Properties of execute (SpecExec).                                       *)
(***************************************************************************)
\* C20: when the plan carries a final answer (a non-empty string), execute
\* returns, and the final response of its ActionResult is that answer,
\* whether the planned calls failed, succeeded or were none.
ThmC20_FinalAnswerVerbatim ==
    (plan.final_answer # <<>> /\ plan.final_answer[1] # "")
    => /\ exec_pc # "raised"
       /\ exec_pc = "done"
            => /\ action_result.final_response.kind = "final_answer"
               /\ action_result.final_response.text = plan.final_answer[1]

\* execute returned the final answer of a plan whose two calls both failed
WitC20_FinalAnswerAllFailed ==
    /\ exec_pc = "done"
    /\ plan.final_answer # <<>> /\ plan.final_answer[1] # ""
    /\ Len(tool_results) = 2
    /\ \A i \in 1..Len(tool_results) : ~tool_results[i].success
    /\ action_result.final_response.text = plan.final_answer[1]

\* C21: the success flag of the ActionResult execute returns is the AND of
\* the success flags of the tool outcomes of the plan.
ThmC21_SuccessIsConjunction ==
    exec_pc = "done"
    => /\ action_result.tool_results = tool_results
       /\ Len(tool_results) = Len(plan.tool_calls)
       /\ action_result.success
            <=> ~\E i \in 1..Len(tool_results) : ~tool_results[i].success

\* execute returned after one call succeeded and one failed; the flag is false
WitC21_MixedOutcomes ==
    /\ exec_pc = "done"
    /\ \E i, j \in 1..Len(tool_results) :
          tool_results[i].success /\ ~tool_results[j].success
    /\ ~action_result.success

\* C22: with no final answer and no successful tool outcome (no outcome at
\* all included), _synthesize_response returns the apologetic fallback
\* message: no itinerary, no listing, no empty string, no exception.
ThmC22_ApologyWhenNothingSucceeded ==
    (exec_pc = "synthesized" /\ NoFinalAnswer
       /\ \A i \in 1..Len(tool_results) : ~tool_results[i].success)
    => /\ final_response.exc = "none"
       /\ final_response.kind = "apology"
       /\ final_response.text = APOLOGY /\ final_response.text # ""
       /\ final_response.stops = <<>>

\* the call got failed outcomes only, one of them still carrying shop data
WitC22_FailedOutcomeWithData ==
    /\ exec_pc = "synthesized" /\ NoFinalAnswer
    /\ Len(tool_results) = 2
    /\ \A i \in 1..Len(tool_results) : ~tool_results[i].success
    /\ \E i \in 1..Len(tool_results) : tool_results[i].data.t = "list"
    /\ final_response.kind = "apology"

\* the failure entries of a trace, and the entries the failed outcomes call for
FailureEntries(trace) == SelectSeq(trace, LAMBDA e : e[1] = "failed")
FailedOutcomes(rs) == SelectSeq(rs, LAMBDA r : ~r.success)

SomeFailSomeSucceed ==
    \E i, j \in 1..Len(tool_results) : tool_results[i].success /\ ~tool_results[j].success

\* the outcomes of the backend calls that returned, by tool
ReturnedBy(tool_name) ==
    SelectSeq(tool_results, LAMBDA r : r.success /\ r.tool_name = tool_name)

\* C23: when some calls of the plan fail and others succeed, the reasoning
\* trace holds, after the reasoning steps, one failure entry per failed call
\* with that call's error message and none for a successful call; the
\* success flag returned is false; and without a final answer the response
\* is rendered from the shops and the route of the successful outcomes.
ThmC23_PartialFailure ==
    SomeFailSomeSucceed
    => /\ FailureEntries(reasoning_trace)
            = [k \in 1..Len(FailedOutcomes(tool_results)) |->
                  << "failed", FailedOutcomes(tool_results)[k].tool_name,
                     FailedOutcomes(tool_results)[k].error >>]
       /\ Len(reasoning_trace)
            = Len(plan.reasoning_steps) + Len(FailedOutcomes(tool_results))
       /\ exec_pc = "done"
            => /\ ~action_result.success
               /\ action_result.reasoning_trace = reasoning_trace
               /\ (plan.final_answer \in { <<>>, <<"">> } /\ ReturnedBy("search_shops") # <<>>)
                    => /\ action_result.final_response.kind = "itinerary"
                       /\ \A k \in 1..Len(ReturnedBy("search_shops")) :
                             \A item \in SeqRange(ReturnedBy("search_shops")[k].data.items) :
                                \E n \in 1..Len(action_result.final_response.stops) :
                                   action_result.final_response.stops[n].stop.id = item.id
               /\ (plan.final_answer \in { <<>>, <<"">> } /\ ReturnedBy("search_shops") = <<>>
                     /\ ReturnedBy("calculate_route") # <<>>)
                    => action_result.final_response.renderer = "_format_route"

\* search_shops returned, calculate_route failed: one failure entry, the flag
\* false, the itinerary rendered from the shops found
WitC23_ShopsKeptRouteFailed ==
    /\ exec_pc = "done"
    /\ plan.tool_calls = <<"search_shops", "calculate_route">>
    /\ tool_results[1].success /\ ~tool_results[2].success
    /\ FailureEntries(reasoning_trace) = << <<"failed", "calculate_route", "backend error">> >>
    /\ ~action_result.success
    /\ action_result.final_response.kind = "itinerary"

\* C25: execute sends the planned calls to the backend once each and in plan
\* order, sends call i+1 only when the outcome of call i is recorded, returns
\* one outcome per planned call with outcome i that of call i, and goes on
\* after a failed call.
ThmC25_SequentialInPlanOrder ==
    /\ Len(issued) <= Len(plan.tool_calls)
    /\ issued = SubSeq(plan.tool_calls, 1, Len(issued))
    /\ Len(tool_results) <= Len(issued) /\ Len(issued) <= Len(tool_results) + 1
    /\ exec_pc = "awaiting" <=> Len(issued) = Len(tool_results) + 1
    /\ \A i \in 1..Len(tool_results) : tool_results[i].tool_name = plan.tool_calls[i]
    /\ exec_pc \in {"done", "raised"}
         => Len(issued) = Len(plan.tool_calls) /\ Len(tool_results) = Len(plan.tool_calls)
    /\ exec_pc = "done" => action_result.tool_results = tool_results

\* the first of two calls failed; the second one was sent all the same and
\* returned
WitC25_CallAfterFailure ==
    /\ exec_pc = "done"
    /\ plan.tool_calls = <<"calculate_route", "search_shops">>
    /\ issued = <<"calculate_route", "search_shops">>
    /\ ~tool_results[1].success /\ tool_results[2].success

\* C24: the lost-and-found registry is append-only: no call of the backend
\* changes or moves a record the registry holds, the registry never gets
\* shorter, and a log_lost_item call adds exactly one record, at the end.
ThmC24_RegistryAppendOnly ==
    [][ /\ Len(registry') >= Len(registry)
        /\ SubSeq(registry', 1, Len(registry)) = registry
        /\ route_tool' = "log_lost_item"
             => /\ Len(registry') = Len(registry) + 1
                /\ registry' = Append(registry, route_reply'.item_details) ]_vars

\* an item was logged after a search had seeded the registry's three samples
WitC24_LoggedAfterSamples ==
    /\ route_tool = "log_lost_item"
    /\ Len(registry) = 4
    /\ SubSeq(registry, 1, 3) = SampleItems
    /\ registry[4].origin = "logged"

(***************************************************************************)
(* The text a backend tool of mall_tools.py returns when it has at least   *)
(* one record to report, as json.loads sees it: search_shops dumps the     *)
(* list of shops; get_recommendations, get_mall_facilities,                *)
(* get_current_events and search_lost_and_found dump an object that holds  *)
(* the records under a key; show_reasoning returns the sentence            *)
(* "Reasoning displayed: N steps", which is not JSON.                      *)
(***************************************************************************)
DecodedTools ==
    { "search_shops", "get_recommendations", "get_mall_facilities",
      "get_current_events", "search_lost_and_found", "show_reasoning" }

ProducedPayload(tool_name) ==
    CASE tool_name = "search_shops" -> JList(<<Shop(1, "a")>>)
      [] tool_name = "get_recommendations" -> JObj("suggested_shops", "x")
      [] tool_name = "get_mall_facilities" -> JObj("restrooms", "x")
      [] tool_name = "get_current_events" -> JObj("ongoing_events", "x")
      [] tool_name = "search_lost_and_found" -> JObj("matching_items", "x")
      [] tool_name = "show_reasoning" -> JBad

\* the field of the dataset the aggregator decodes a tool's payload into
DatasetField(d, tool_name) ==
    CASE tool_name = "search_shops" -> d.shops
      [] tool_name = "get_recommendations" -> d.recommendations
      [] tool_name = "get_mall_facilities" -> d.facilities
      [] tool_name = "get_current_events" -> d.events
      [] tool_name = "search_lost_and_found" -> d.lost_found
      [] tool_name = "show_reasoning" -> d.reasoning

\* C26: a successful outcome that carries the payload its backend tool
\* produces for at least one record leaves the tool's field of the
\* aggregated dataset non-empty.
CexC26_ProducedPayloadFillsField ==
    (agg_pc = "done" /\ aggregated.exc = "none")
    => \A i \in 1..Len(results) :
          (/\ results[i].success
           /\ results[i].tool_name \in DecodedTools
           /\ results[i].data = ProducedPayload(results[i].tool_name))
          => DatasetField(aggregated.data, results[i].tool_name)
                # DatasetField(EmptyDataset, results[i].tool_name)

\* C27: the 'No valid shops found' result of calculate_route or
\* calculate_accessible_route is not stored in the route slot of the
\* dataset, and the response is never the rendering of a planned route for
\* it.
RouteTools == { "calculate_route", "calculate_accessible_route" }

CexC27_NoValidShopsNotARoute ==
    (/\ exec_pc = "done"
     /\ \E i \in 1..Len(tool_results) :
           /\ tool_results[i].success
           /\ tool_results[i].tool_name \in RouteTools
           /\ tool_results[i].data = NoValidShopsText
     /\ \A i \in 1..Len(tool_results) :
           (tool_results[i].success /\ tool_results[i].tool_name \in RouteTools)
           => tool_results[i].data = NoValidShopsText)
    => /\ SynthDataset.data.route # NoValidShopsText
       /\ action_result.final_response.kind # "route"

\* C28: whenever the response execute returns is the apologetic fallback
\* message, the success flag of the ActionResult is false; this for every
\* plan, the plan without tool calls and without final answer included.
CexC28_ApologyMeansFailure ==
    (exec_pc = "done" /\ action_result.final_response.text = APOLOGY)
    => ~action_result.success

\* C29: for stops with distinct non-empty ids and a budget B > 0 under which
\* no stop's scaled duration falls below 15, the allocated durations sum to
\* at most B and to more than B minus the number of stops.
RECURSIVE SumDurations(_, _)
SumDurations(allocs, i) ==
    IF i > Len(allocs) THEN 0 ELSE allocs[i].duration + SumDurations(allocs, i + 1)

NoStopClamped ==
    \A i \in 1..Len(shops) :
       Scaled(category_times(shops[i].category), total_time_minutes,
              total_needed(shops, 1)) >= 15

CexC29_BudgetConsumedUpToFlooring ==
    (/\ alloc_pc = "done"
     /\ BudgetGiven
     /\ shops # <<>>
     /\ \A i \in 1..Len(shops) : shops[i].id # 0
     /\ NoStopClamped)
    => /\ SumDurations(allocations, 1) <= total_time_minutes[1]
       /\ SumDurations(allocations, 1) > total_time_minutes[1] - Len(shops)

(***************************************************************************)
(* SpecLimiter: RateLimiter.acquire (main.py and mall_main.py; both        *)
(* programs construct the limiter with max_requests_per_minute = 4).  The  *)
(* callers invoke acquire one after another: an acquire starts when the    *)
(* previous one has returned.  time.time() is the variable clock, in whole *)
(* seconds since the limiter was constructed; it advances between the      *)
(* calls and during asyncio.sleep, the only await of acquire, which        *)
(* returns wait_time seconds after it was called or later.  The daily      *)
(* counter of mall_main.py counts the completed acquires; its reset, a day *)
(* after the construction, lies beyond the clock values explored.          *)
(***************************************************************************)
MaxClock == 100     \* no caller idles once the clock has passed this value
MaxAcquires == 6    \* calls of acquire in one behaviour

max_requests == 4
WindowSeconds == 60

\* seconds a caller lets pass between two calls
CallerDelays == { 7, 20, 61 }
\* seconds by which asyncio.sleep returns late
SleepLags == { 0, 1 }

\* [t for t in self.request_times if current_time - t < 60]
InWindow(times, current) ==
    SelectSeq(times, LAMBDA t : current - t < WindowSeconds)

\* a wait that ends as the oldest request reaches the edge of the window
WaitToWindowEdge(current, oldest) == WindowSeconds - (current - oldest)
\* wait_time = 60 - (current_time - oldest_request) + 1
wait_time(current, oldest) == WindowSeconds - (current - oldest) + 1

InitLimiter ==
    /\ IdleLimiter
    /\ IdleAgg /\ IdlePar /\ IdleAlloc /\ IdleRoute /\ IdleBackend /\ IdleExec

\* time passes between two calls of acquire
CallerIdles ==
    /\ acquire_pc = "idle"
    /\ \E d \in CallerDelays :
          /\ clock + d <= MaxClock
          /\ clock' = clock + d
    /\ UNCHANGED <<request_times, acquire_pc, time_read, oldest_request,
                   daily_request_count, notLimiter>>

\* acquire finds fewer than max_requests times in the window and returns
\* without awaiting
AcquireAtOnce ==
    /\ acquire_pc = "idle"
    /\ daily_request_count < MaxAcquires
    /\ Len(InWindow(request_times, clock)) < max_requests
    /\ time_read' = clock
    /\ oldest_request' = <<>>
    /\ request_times' = Append(InWindow(request_times, clock), clock)
    /\ daily_request_count' = daily_request_count + 1
    /\ UNCHANGED <<clock, acquire_pc, notLimiter>>

\* acquire finds max_requests times (or more) in the window and suspends in
\* asyncio.sleep(wait_time).  The oldest time passed the filter, so
\* current_time - oldest_request < 60 and "if wait_time > 0" is always taken.
AcquireSleeps ==
    /\ acquire_pc = "idle"
    /\ daily_request_count < MaxAcquires
    /\ Len(InWindow(request_times, clock)) >= max_requests
    /\ time_read' = clock
    /\ request_times' = InWindow(request_times, clock)
    /\ oldest_request' = <<request_times'[1]>>
    /\ wait_time(clock, request_times'[1]) > 0
    /\ acquire_pc' = "sleeping"
    /\ UNCHANGED <<clock, daily_request_count, notLimiter>>

\* asyncio.sleep returns; acquire reads the time again, filters and appends
SleepReturns ==
    /\ acquire_pc = "sleeping"
    /\ \E lag \in SleepLags :
          clock' = clock + wait_time(time_read, oldest_request[1]) + lag
    /\ time_read' = clock'
    /\ request_times' = Append(InWindow(request_times, clock'), clock')
    /\ daily_request_count' = daily_request_count + 1
    /\ acquire_pc' = "idle"
    /\ UNCHANGED <<oldest_request, notLimiter>>

NextLimiter == CallerIdles \/ AcquireAtOnce \/ AcquireSleeps \/ SleepReturns

SpecLimiter == InitLimiter /\ [][NextLimiter]_vars

\* C30: with callers that invoke acquire one after another, after every
\* completed acquire at most max_requests recorded request times lie within
\* the last 60 seconds, and an acquire that found max_requests times in the
\* window has not completed before the oldest of them was more than 60
\* seconds old.
ThmC30_WindowHoldsAtMostMaxRequests ==
    /\ (acquire_pc = "idle" /\ daily_request_count > 0)
         => /\ Len(InWindow(request_times, clock)) <= max_requests
            /\ Len(request_times) <= max_requests
            /\ request_times[Len(request_times)] = time_read
            /\ oldest_request # <<>> => time_read - oldest_request[1] > WindowSeconds
    /\ acquire_pc = "sleeping"
         => /\ Len(request_times) = max_requests
            /\ oldest_request = <<request_times[1]>>
            /\ wait_time(time_read, oldest_request[1]) > 0

\* the fifth acquire found four times in the window, slept, and returned
\* with the window full again
WitC30_WaitedForOldest ==
    /\ acquire_pc = "idle"
    /\ daily_request_count = 5
    /\ oldest_request = <<0>>
    /\ Len(request_times) = max_requests
    /\ time_read = 61

====
